---- MODULE Spec2Model ----
(***************************************************************************)
(* Model of the streaming, range-tagged Merkle builder of                  *)
(* JMDN_Merkletree: the Builder (Push / Finalize / Snapshot / Restore),    *)
(* its peaks accumulator, the materialised tree and the stack-based diff   *)
(* engines (TreeDiff, TreeBisect).                                         *)
(*                                                                         *)
(* Hashes are modelled as collision-free: a digest is the record of the    *)
(* bytes that were written into the hasher, so two digests are equal       *)
(* exactly when their inputs are.  uint64 / uint32 values stay far below   *)
(* their width within the bounds explored, so no wrap-around is modelled.  *)
(***************************************************************************)
EXTENDS Integers, Sequences, FiniteSets, TLC

VARIABLES bld, hist, last, synced

vars == <<bld, hist, last, synced>>

---------------------------------------------------------------------------
(* Bounds of the exploration                                               *)

MaxHeight == 4
NumHashes == 2
MaxBatch == 3
MaxBlocks == 4

Heights == 0..MaxHeight
BlockHashes == 1..NumHashes
Builders == {"b", "other"}

(* every non-empty batch of at most MaxBatch block hashes *)
Batches == UNION {[1..n -> BlockHashes] : n \in 1..MaxBatch}

(* the batches that repeat block hash 1 *)
OnesBatches == {hs \in Batches : \A i \in 1..Len(hs) : hs[i] = 1}

---------------------------------------------------------------------------
(* Program constants                                                       *)

DefaultBlockMerge == 200
tagSnapshotV1 == 161
HashLen == 32
U32Len == 4
U64Len == 8

Nil == [nil |-> TRUE]
NoErr == "nil"
ErrUnexpectedStart == "unexpected startHeight"
ErrNonContiguousChunk == "non-contiguous height inside chunk"
ErrNonContiguousCombine == "non-contiguous combine"

---------------------------------------------------------------------------
(* Hashing primitives: the digest is the tagged tuple of what was hashed.  *)

ZeroHash == [tag |-> "zero"]

elemDigest(height, blockHash) ==
    [tag |-> "elem", height |-> height, blockHash |-> blockHash]

chunkDigest(start, count, elems) ==
    [tag |-> "chunk", start |-> start, count |-> count, elems |-> elems]

outerNodeDigest(start, count, left, right) ==
    [tag |-> "outer", start |-> start, count |-> count,
     left |-> left, right |-> right]

(* an inner leaf that is not bound to its height *)
innerLeafDigestNoHeight(height, blockHash) ==
    [tag |-> "innerLeaf", height |-> 0, blockHash |-> blockHash]

innerLeafDigest(height, blockHash) ==
    [tag |-> "innerLeaf", height |-> height, blockHash |-> blockHash]

innerNodeDigest(start, count, left, right) ==
    [tag |-> "inner", start |-> start, count |-> count,
     left |-> left, right |-> right]

(* H(tagChunkMerk || start || count || innerRoot) *)
chunkMerkDigest(start, count, innerRoot) ==
    [tag |-> "chunkMerk", start |-> start, count |-> count,
     innerRoot |-> innerRoot]

---------------------------------------------------------------------------
(* Numbers at their Go widths.  A uint64 or uint32 value whose width       *)
(* matters is held in two limbs, hi * 2^16 + lo, so that values beyond     *)
(* 2^32 and the wrap-around of a uint32 can be computed; heights stay far  *)
(* below 2^64, so uint64 wrap-around is not modelled.                      *)

LimbBase == 256 * 256

W(v) == [hi |-> v \div LimbBase, lo |-> v % LimbBase]
WValue(a) == a.hi * LimbBase + a.lo

WAdd(a, b) ==
    [hi |-> a.hi + b.hi + ((a.lo + b.lo) \div LimbBase),
     lo |-> (a.lo + b.lo) % LimbBase]

(* a - b for a >= b *)
WSub(a, b) ==
    IF a.lo >= b.lo THEN [hi |-> a.hi - b.hi, lo |-> a.lo - b.lo]
    ELSE [hi |-> a.hi - b.hi - 1, lo |-> a.lo + LimbBase - b.lo]

WLess(a, b) == a.hi < b.hi \/ (a.hi = b.hi /\ a.lo < b.lo)
WLeq(a, b) == ~WLess(b, a)

(* the conversion uint32(x) of a uint64 *)
U32(a) == [hi |-> a.hi % LimbBase, lo |-> a.lo]

(* combinedCount := left.count + right.count, a sum of two uint32 *)
combinedCount(leftCount, rightCount) == U32(WAdd(leftCount, rightCount))

---------------------------------------------------------------------------
(* Peaks accumulator.  A node is {start, count, sum}; for the diff engines *)
(* every node also keeps hasData and its two children.                     *)

LeafNode(start, count, sum) ==
    [start |-> start, count |-> count, sum |-> sum,
     hasData |-> TRUE, left |-> Nil, right |-> Nil]

(* the combiner is "outer" (outerNodeDigest) or "inner" (innerNodeDigest) *)
newPeaksAccumulator(combiner) ==
    [combiner |-> combiner, peaks |-> <<>>, leafCount |-> 0]

(* the slice after "if level >= len(a.peaks) { append(nil) }" *)
ExtendPeaks(peaks, level) ==
    IF level > Len(peaks) THEN Append(peaks, Nil) ELSE peaks

(* left.start + left.count == right.start *)
ContiguousCombine(left, right) == left.start + left.count = right.start

(* a.combiner(a.hf, start, count, left, right) *)
Combiner(combiner, start, count, left, right) ==
    IF combiner = "inner" THEN innerNodeDigest(start, count, left, right)
    ELSE outerNodeDigest(start, count, left, right)

(* a merge that keeps the left node and drops the carry *)
CombineWithLeftOnly(combiner, left, right) == left

(* the node that merges left and right under the given combiner *)
CombineWith(combiner, left, right) ==
    [start |-> left.start,
     count |-> WValue(combinedCount(W(left.count), W(right.count))),
     sum |-> Combiner(combiner, left.start,
                      WValue(combinedCount(W(left.count), W(right.count))),
                      left.sum, right.sum),
     hasData |-> FALSE, left |-> left, right |-> right]

CombineNodes(left, right) == CombineWith("outer", left, right)

(* the loop of AddLeaf; level is 1-based here (Go level + 1) *)
RECURSIVE AddLeafLoop(_, _, _)
AddLeafLoop(a, carry, level) ==
    LET peaks == ExtendPeaks(a.peaks, level)
    IN IF peaks[level] = Nil
       THEN [a |-> [a EXCEPT !.peaks = [peaks EXCEPT ![level] = carry],
                             !.leafCount = @ + 1],
             err |-> NoErr]
       ELSE IF ~ContiguousCombine(peaks[level], carry)
            THEN [a |-> [a EXCEPT !.peaks = peaks],
                  err |-> ErrNonContiguousCombine]
            ELSE AddLeafLoop([a EXCEPT !.peaks = [peaks EXCEPT ![level] = Nil]],
                             CombineWith(a.combiner, peaks[level], carry),
                             level + 1)

AddLeaf(a, n) == AddLeafLoop(a, n, 1)

(* the fold of Root(): i runs from len(peaks) down to 1, root is the fold  *)
(* so far (Nil before the first occupied peak)                             *)
RECURSIVE RootFold(_, _, _, _)
RootFold(combiner, peaks, i, root) ==
    IF i = 0 THEN (IF root = Nil THEN ZeroHash ELSE root.sum)
    ELSE IF peaks[i] = Nil THEN RootFold(combiner, peaks, i - 1, root)
    ELSE IF root = Nil THEN RootFold(combiner, peaks, i - 1, peaks[i])
    ELSE IF root.start + root.count # peaks[i].start THEN ZeroHash
    ELSE RootFold(combiner, peaks, i - 1,
                  CombineWith(combiner, root, peaks[i]))

Root(a) == RootFold(a.combiner, a.peaks, Len(a.peaks), Nil)

---------------------------------------------------------------------------
(* Builder                                                                 *)

(* cfg.StartHeight is a pointer: <<>> when nil (lax mode), <<h>> when it  *)
(* points to the height h (strict mode)                                    *)
NewBuilder(cfg) ==
    LET c == IF cfg.BlockMerge <= 0
             THEN [cfg EXCEPT !.BlockMerge = DefaultBlockMerge] ELSE cfg
    IN [cfg |-> c,
        expectedNextHeight |->
            IF c.StartHeight # <<>> THEN c.StartHeight[1] ELSE 0,
        enforceHeights |-> c.StartHeight # <<>>,
        inChunkElems |-> <<>>,
        inChunkStart |-> 0,
        outer |-> newPeaksAccumulator("outer"),
        totalBlocks |-> 0]

State(b) ==
    [TotalBlocks |-> b.totalBlocks,
     Committed |-> b.outer.leafCount,
     InChunkCount |-> Len(b.inChunkElems),
     NextHeight |-> b.expectedNextHeight]

(* a commit that leaves the committed elements in the buffer *)
commitCurrentChunkKeepsBuffer(b) ==
    IF Len(b.inChunkElems) = 0 THEN [b |-> b, err |-> NoErr]
    ELSE LET start == b.inChunkStart
             count == Len(b.inChunkElems)
             chunk == chunkDigest(start, count, b.inChunkElems)
             r == AddLeaf(b.outer, LeafNode(start, count, chunk))
         IN [b |-> [b EXCEPT !.outer = r.a], err |-> r.err]

commitCurrentChunk(b) ==
    IF Len(b.inChunkElems) = 0 THEN [b |-> b, err |-> NoErr]
    ELSE LET start == b.inChunkStart
             count == Len(b.inChunkElems)
             chunk == chunkDigest(start, count, b.inChunkElems)
             r == AddLeaf(b.outer, LeafNode(start, count, chunk))
         IN IF r.err # NoErr
            THEN [b |-> [b EXCEPT !.outer = r.a], err |-> r.err]
            ELSE [b |-> [b EXCEPT !.outer = r.a,
                                  !.inChunkElems = <<>>,
                                  !.inChunkStart = 0],
                  err |-> NoErr]

(* a lax builder that takes every element of a batch at the batch start *)
ElemHeightNoIndex(b, startHeight, i) ==
    IF b.enforceHeights THEN b.expectedNextHeight ELSE startHeight

(* height of element i (1-based) of a batch *)
ElemHeight(b, startHeight, i) ==
    IF b.enforceHeights THEN b.expectedNextHeight ELSE startHeight + (i - 1)

(* a start check that lets a batch skip heights *)
UnexpectedStartLetsSkip(b, startHeight) ==
    b.enforceHeights /\ startHeight < b.expectedNextHeight

(* the strict-mode check on the batch start *)
UnexpectedStart(b, startHeight) ==
    b.enforceHeights /\ startHeight # b.expectedNextHeight

(* a chunk check that forgets the elements already buffered *)
ChunkExpectedNoLen(b) == b.inChunkStart

(* the height the next element of a started chunk must have *)
ChunkExpected(b) == b.inChunkStart + Len(b.inChunkElems)

(* the for loop of Push, from element i on, with `accepted` so far *)
RECURSIVE PushLoop(_, _, _, _, _)
PushLoop(b, startHeight, blockHashes, i, accepted) ==
    IF i > Len(blockHashes)
    THEN [b |-> b, accepted |-> accepted, err |-> NoErr]
    ELSE
      LET height == ElemHeight(b, startHeight, i)
          fresh == Len(b.inChunkElems) = 0
          expected == ChunkExpected(b)
      IN IF ~fresh /\ height # expected
         THEN [b |-> b, accepted |-> accepted, err |-> ErrNonContiguousChunk]
         ELSE
           LET b1 == [b EXCEPT
                        !.inChunkStart = IF fresh THEN height ELSE @,
                        !.inChunkElems =
                            Append(@, elemDigest(height, blockHashes[i])),
                        !.totalBlocks = @ + 1,
                        !.expectedNextHeight =
                            IF b.enforceHeights THEN @ + 1 ELSE @]
           IN IF Len(b1.inChunkElems) = b1.cfg.BlockMerge
              THEN LET c == commitCurrentChunk(b1)
                   IN IF c.err # NoErr
                      THEN [b |-> c.b, accepted |-> accepted + 1,
                            err |-> c.err]
                      ELSE PushLoop(c.b, startHeight, blockHashes,
                                    i + 1, accepted + 1)
              ELSE PushLoop(b1, startHeight, blockHashes, i + 1, accepted + 1)

Push(b, startHeight, blockHashes) ==
    IF Len(blockHashes) = 0
    THEN [b |-> b, accepted |-> 0, err |-> NoErr]
    ELSE IF UnexpectedStart(b, startHeight)
         THEN [b |-> b, accepted |-> 0, err |-> ErrUnexpectedStart]
         ELSE PushLoop(b, startHeight, blockHashes, 1, 0)

Finalize(b) ==
    LET c == IF Len(b.inChunkElems) > 0 THEN commitCurrentChunk(b)
             ELSE [b |-> b, err |-> NoErr]
    IN IF c.err # NoErr
       THEN [b |-> c.b, root |-> ZeroHash, err |-> c.err]
       ELSE [b |-> c.b, root |-> Root(c.b.outer), err |-> NoErr]

(* the loop of InnerMerkleForRange over the block hashes, from i on *)
RECURSIVE InnerLeaves(_, _, _, _)
InnerLeaves(acc, startHeight, blockHashes, i) ==
    IF i > Len(blockHashes) THEN [a |-> acc, err |-> NoErr]
    ELSE LET height == startHeight + (i - 1)
             r == AddLeaf(acc, LeafNode(height, 1,
                                 innerLeafDigest(height, blockHashes[i])))
         IN IF r.err # NoErr THEN r
            ELSE InnerLeaves(r.a, startHeight, blockHashes, i + 1)

InnerMerkleForRange(startHeight, blockHashes, wrap) ==
    IF Len(blockHashes) = 0 THEN [root |-> ZeroHash, err |-> NoErr]
    ELSE LET r == InnerLeaves(newPeaksAccumulator("inner"), startHeight,
                              blockHashes, 1)
         IN IF r.err # NoErr THEN [root |-> ZeroHash, err |-> r.err]
            ELSE IF wrap
            THEN [root |-> chunkMerkDigest(startHeight, Len(blockHashes),
                                           Root(r.a)),
                  err |-> NoErr]
            ELSE [root |-> Root(r.a), err |-> NoErr]

(* a chunk digest that binds every element to the start height *)
ComputeChunkDigestOneHeight(startHeight, blockHashes) ==
    IF Len(blockHashes) = 0 THEN ZeroHash
    ELSE chunkDigest(startHeight, Len(blockHashes),
                     [i \in 1..Len(blockHashes) |->
                        elemDigest(startHeight, blockHashes[i])])

ComputeChunkDigest(startHeight, blockHashes) ==
    IF Len(blockHashes) = 0 THEN ZeroHash
    ELSE chunkDigest(startHeight, Len(blockHashes),
                     [i \in 1..Len(blockHashes) |->
                        elemDigest(startHeight + (i - 1), blockHashes[i])])

---------------------------------------------------------------------------
(* Binary encoding helpers.  A snapshot is a sequence of byte cells: an    *)
(* integer byte, or byte i of a digest.                                    *)

IntByte(v) == [k |-> "i", v |-> v]
HashByte(t, i) == [k |-> "h", t |-> t, i |-> i]

ZeroBytes(n) == [i \in 1..n |-> IntByte(0)]

(* little-endian bytes of v on n bytes *)
RECURSIVE LEBytes(_, _)
LEBytes(v, n) ==
    IF n = 0 THEN <<>> ELSE <<IntByte(v % 256)>> \o LEBytes(v \div 256, n - 1)

RECURSIVE LEValue(_)
LEValue(cells) ==
    IF cells = <<>> THEN 0 ELSE Head(cells).v + 256 * LEValue(Tail(cells))

writeU64(v) == LEBytes(v, U64Len)
writeU32(v) == LEBytes(v, U32Len)

(* the 32 bytes of a digest; Hash32{} is 32 zero bytes *)
HashBytes(t) ==
    IF t = ZeroHash THEN ZeroBytes(HashLen)
    ELSE IF t.tag = "raw" THEN t.bytes
    ELSE [i \in 1..HashLen |-> HashByte(t, i)]

(* the digest that 32 bytes spell *)
HashFromBytes(cells) ==
    IF cells = ZeroBytes(HashLen) THEN ZeroHash
    ELSE IF cells[1].k = "h" /\ cells = HashBytes(cells[1].t) THEN cells[1].t
    ELSE [tag |-> "raw", bytes |-> cells]

RECURSIVE ConcatAll(_)
ConcatAll(ss) == IF ss = <<>> THEN <<>> ELSE Head(ss) \o ConcatAll(Tail(ss))

(* bytes.Reader: s is the byte string, i the number of bytes consumed *)
NewReader(s) == [s |-> s, i |-> 0]

ReadByte(r) ==
    IF r.i >= Len(r.s) THEN [r |-> r, v |-> 0, err |-> "EOF"]
    ELSE [r |-> [r EXCEPT !.i = @ + 1], v |-> r.s[r.i + 1].v, err |-> NoErr]

(* r.Read(buf[:n]): EOF only when nothing is left; otherwise copies what   *)
(* is available, reports no error, and the rest of buf stays zero          *)
ReadN(r, n) ==
    IF r.i >= Len(r.s) THEN [r |-> r, bytes |-> ZeroBytes(n), err |-> "EOF"]
    ELSE LET avail == IF Len(r.s) - r.i < n THEN Len(r.s) - r.i ELSE n
         IN [r |-> [r EXCEPT !.i = @ + avail],
             bytes |-> SubSeq(r.s, r.i + 1, r.i + avail) \o ZeroBytes(n - avail),
             err |-> NoErr]

readU64(r) ==
    LET x == ReadN(r, U64Len)
    IN [r |-> x.r, v |-> IF x.err = NoErr THEN LEValue(x.bytes) ELSE 0,
        err |-> x.err]

readU32(r) ==
    LET x == ReadN(r, U32Len)
    IN [r |-> x.r, v |-> IF x.err = NoErr THEN LEValue(x.bytes) ELSE 0,
        err |-> x.err]

readHash(r) ==
    LET x == ReadN(r, HashLen)
    IN [r |-> x.r, v |-> HashFromBytes(x.bytes), err |-> x.err]

---------------------------------------------------------------------------
(* Snapshot codec                                                          *)

EncodePeak(p) ==
    IF p = Nil THEN <<IntByte(0)>>
    ELSE <<IntByte(1)>> \o writeU64(p.start) \o writeU32(p.count)
         \o HashBytes(p.sum)

Encode(a) ==
    writeU64(a.leafCount) \o writeU32(Len(a.peaks))
    \o ConcatAll([i \in 1..Len(a.peaks) |-> EncodePeak(a.peaks[i])])

Snapshot(b) ==
    <<IntByte(tagSnapshotV1)>>
    \o writeU32(b.cfg.BlockMerge)
    \o (IF b.enforceHeights
        THEN <<IntByte(1)>> \o writeU64(b.expectedNextHeight)
        ELSE <<IntByte(0)>>)
    \o writeU64(b.totalBlocks)
    \o writeU64(b.inChunkStart)
    \o writeU32(Len(b.inChunkElems))
    \o ConcatAll([i \in 1..Len(b.inChunkElems) |-> HashBytes(b.inChunkElems[i])])
    \o Encode(b.outer)

(* the number of iterations, at most m, that read a presence byte 0 from   *)
(* reader r one after the other (each leaves its slot nil and continues)   *)
NilRun(r, m) ==
    LET stop == {q \in 1..m : r.i + q > Len(r.s) \/ r.s[r.i + q].v # 0}
    IN IF stop = {} THEN m
       ELSE (CHOOSE q \in stop : \A p \in stop : q <= p) - 1

(* the loop of Decode over the n peak slots, from slot i on; a run of nil  *)
(* slots is taken in one step                                              *)
RECURSIVE DecodePeaks(_, _, _, _)
DecodePeaks(a, r, i, n) ==
    IF i > n THEN [a |-> a, r |-> r, err |-> NoErr]
    ELSE IF NilRun(r, n - i + 1) > 1
    THEN DecodePeaks(a, [r EXCEPT !.i = @ + NilRun(r, n - i + 1)],
                     i + NilRun(r, n - i + 1), n)
    ELSE LET f == ReadByte(r)
         IN IF f.err # NoErr THEN [a |-> a, r |-> f.r, err |-> f.err]
            ELSE IF f.v = 0 THEN DecodePeaks(a, f.r, i + 1, n)
            ELSE LET st == readU64(f.r)
                 IN IF st.err # NoErr THEN [a |-> a, r |-> st.r, err |-> st.err]
                    ELSE LET ct == readU32(st.r)
                         IN IF ct.err # NoErr
                            THEN [a |-> a, r |-> ct.r, err |-> ct.err]
                            ELSE LET sm == readHash(ct.r)
                                 IN IF sm.err # NoErr
                                    THEN [a |-> a, r |-> sm.r, err |-> sm.err]
                                    ELSE DecodePeaks(
                                           [a EXCEPT !.peaks[i] =
                                              LeafNode(st.v, ct.v, sm.v)],
                                           sm.r, i + 1, n)

(* Decode without "a.leafCount = lc" *)
DecodeDropsLeafCount(a, r) ==
    LET lc == readU64(r)
    IN IF lc.err # NoErr THEN [a |-> a, r |-> lc.r, err |-> lc.err]
       ELSE LET n == readU32(lc.r)
            IN IF n.err # NoErr THEN [a |-> a, r |-> n.r, err |-> n.err]
               ELSE DecodePeaks([a EXCEPT !.peaks = [i \in 1..n.v |-> Nil]],
                                n.r, 1, n.v)

Decode(a, r) ==
    LET lc == readU64(r)
    IN IF lc.err # NoErr THEN [a |-> a, r |-> lc.r, err |-> lc.err]
       ELSE LET a1 == [a EXCEPT !.leafCount = lc.v]
                n == readU32(lc.r)
            IN IF n.err # NoErr THEN [a |-> a1, r |-> n.r, err |-> n.err]
               ELSE DecodePeaks([a1 EXCEPT !.peaks = [i \in 1..n.v |-> Nil]],
                                n.r, 1, n.v)

(* the loop of Restore reading the n partial-chunk elements *)
RECURSIVE RestoreElems(_, _, _, _)
RestoreElems(b, r, i, n) ==
    IF i > n THEN [b |-> b, r |-> r, err |-> NoErr]
    ELSE LET e == readHash(r)
         IN IF e.err # NoErr THEN [b |-> b, r |-> e.r, err |-> e.err]
            ELSE RestoreElems([b EXCEPT !.inChunkElems = Append(@, e.v)],
                              e.r, i + 1, n)

(* Restore from the partial-chunk part on (after totalBlocks).  An         *)
(* assignment "b.f, err = readU64(r)" stores 0 when the read fails.        *)
RestoreTail(b, r) ==
    LET ics == readU64(r)
        b1 == [b EXCEPT !.inChunkStart = ics.v]
    IN IF ics.err # NoErr THEN [b |-> b1, err |-> ics.err]
       ELSE
         LET n == readU32(ics.r)
         IN IF n.err # NoErr THEN [b |-> b1, err |-> n.err]
            ELSE IF n.v > b.cfg.BlockMerge
                 THEN [b |-> b1, err |-> "snapshot inChunkCount > blockMerge"]
            ELSE
              LET es == RestoreElems([b1 EXCEPT !.inChunkElems = <<>>],
                                     n.r, 1, n.v)
              IN IF es.err # NoErr THEN [b |-> es.b, err |-> es.err]
                 ELSE LET d == Decode(newPeaksAccumulator("outer"), es.r)
                      IN [b |-> [es.b EXCEPT !.outer = d.a], err |-> d.err]

(* Restore from the totalBlocks field on *)
RestoreTotals(b, r) ==
    LET tb == readU64(r)
        b1 == [b EXCEPT !.totalBlocks = tb.v]
    IN IF tb.err # NoErr THEN [b |-> b1, err |-> tb.err]
       ELSE RestoreTail(b1, tb.r)

Restore(b, snapshot) ==
    LET v == ReadByte(NewReader(snapshot))
    IN IF v.err # NoErr THEN [b |-> b, err |-> v.err]
       ELSE IF v.v # tagSnapshotV1
            THEN [b |-> b, err |-> "unsupported snapshot version"]
       ELSE
         LET bm == readU32(v.r)
         IN IF bm.err # NoErr THEN [b |-> b, err |-> bm.err]
            ELSE IF bm.v # b.cfg.BlockMerge
                 THEN [b |-> b, err |-> "snapshot blockMerge != builder blockMerge"]
            ELSE
              LET enf == ReadByte(bm.r)
              IN IF enf.err # NoErr THEN [b |-> b, err |-> enf.err]
                 ELSE IF enf.v = 1
                 THEN LET enh == readU64(enf.r)
                          b1 == [b EXCEPT !.enforceHeights = TRUE,
                                          !.expectedNextHeight = enh.v]
                      IN IF enh.err # NoErr THEN [b |-> b1, err |-> enh.err]
                         ELSE RestoreTotals(b1, enh.r)
                 ELSE RestoreTotals([b EXCEPT !.enforceHeights = FALSE], enf.r)

---------------------------------------------------------------------------
(* Tree materializer: the logical root over the current peaks, highest     *)
(* level first, each step combining the fold so far (left) with the next   *)
(* lower peak (right).  Nil for a builder without peaks.                   *)

RECURSIVE RootNodeFold(_, _, _)
RootNodeFold(peaks, i, root) ==
    IF i = 0 THEN root
    ELSE IF peaks[i] = Nil THEN RootNodeFold(peaks, i - 1, root)
    ELSE IF root = Nil THEN RootNodeFold(peaks, i - 1, peaks[i])
    ELSE RootNodeFold(peaks, i - 1, CombineNodes(root, peaks[i]))

RootNode(b) == RootNodeFold(b.outer.peaks, Len(b.outer.peaks), Nil)

---------------------------------------------------------------------------
(* Diff engines.  A stack is a sequence whose last element is the top.     *)

Top(stack) == IF Len(stack) > 0 THEN stack[Len(stack)] ELSE Nil
Pop(stack) == SubSeq(stack, 1, Len(stack) - 1)
PopIfAny(stack) == IF Len(stack) > 0 THEN Pop(stack) ELSE stack

(* a break-down that pushes the left child before the right one *)
BreakDownLeftFirst(stack, n) ==
    LET s0 == Pop(stack)
        s1 == IF n.left # Nil THEN Append(s0, n.left) ELSE s0
    IN IF n.right # Nil THEN Append(s1, n.right) ELSE s1

(* pop n, then push n.Right and n.Left (those that are not nil) *)
BreakDown(stack, n) ==
    LET s0 == Pop(stack)
        s1 == IF n.right # Nil THEN Append(s0, n.right) ELSE s0
    IN IF n.left # Nil THEN Append(s1, n.left) ELSE s1

(* a range that reports one block whatever the node covers *)
DiffRangeOneBlock(n) == [Start |-> n.start, Count |-> 1]

DiffRange(n) == [Start |-> n.start, Count |-> n.count]

ExactMatch(n1, n2) ==
    n1.start = n2.start /\ n1.count = n2.count /\ n1.sum = n2.sum

RECURSIVE diffLoop(_, _, _)
diffLoop(stack1, stack2, diffs) ==
    IF Len(stack1) = 0 /\ Len(stack2) = 0 THEN diffs
    ELSE
      LET n1 == Top(stack1)
          n2 == Top(stack2)
      IN IF n1 = Nil /\ n2 = Nil
         THEN diffLoop(PopIfAny(stack1), PopIfAny(stack2), diffs)
         ELSE IF n1 = Nil
         THEN diffLoop(stack1, Pop(stack2), Append(diffs, DiffRange(n2)))
         ELSE IF n2 = Nil
         THEN diffLoop(Pop(stack1), stack2, Append(diffs, DiffRange(n1)))
         ELSE IF ExactMatch(n1, n2)
         THEN diffLoop(Pop(stack1), Pop(stack2), diffs)
         ELSE IF n1.start < n2.start
         THEN diffLoop(Pop(stack1), stack2, Append(diffs, DiffRange(n1)))
         ELSE IF n2.start < n1.start
         THEN diffLoop(stack1, Pop(stack2), Append(diffs, DiffRange(n2)))
         ELSE IF n1.count > n2.count
         THEN IF n1.hasData
              THEN diffLoop(Pop(stack1), Pop(stack2),
                            Append(diffs, DiffRange(n1)))
              ELSE diffLoop(BreakDown(stack1, n1), stack2, diffs)
         ELSE IF n2.count > n1.count
         THEN IF n2.hasData
              THEN diffLoop(Pop(stack1), Pop(stack2),
                            Append(diffs, DiffRange(n2)))
              ELSE diffLoop(stack1, BreakDown(stack2, n2), diffs)
         ELSE IF n1.hasData \/ n2.hasData
         THEN diffLoop(Pop(stack1), Pop(stack2), Append(diffs, DiffRange(n1)))
         ELSE diffLoop(BreakDown(stack1, n1), BreakDown(stack2, n2), diffs)

diffIterative(root1, root2) == diffLoop(<<root1>>, <<root2>>, <<>>)

TreeDiff(b, other) == diffIterative(RootNode(b), RootNode(other))

(* result of a bisect: the range, or a fault (nil pointer dereference) *)
BisectRange(n) == [start |-> n.start, count |-> n.count, fault |-> FALSE]
BisectFault == [start |-> 0, count |-> 0, fault |-> TRUE]

(* the range the code returns when n2 is a larger leaf than n1 *)
LargerLeafN2(n1, n2) == BisectRange(n1)

RECURSIVE bisectLoop(_, _)
bisectLoop(stack1, stack2) ==
    IF Len(stack1) = 0 /\ Len(stack2) = 0
    THEN [start |-> 0, count |-> 0, fault |-> FALSE]
    ELSE
      LET n1 == Top(stack1)
          n2 == Top(stack2)
      IN IF n1 = Nil
         THEN (IF n2 = Nil THEN BisectFault ELSE BisectRange(n2))
         ELSE IF n2 = Nil THEN BisectRange(n1)
         ELSE IF ExactMatch(n1, n2) THEN bisectLoop(Pop(stack1), Pop(stack2))
         ELSE IF n1.start # n2.start THEN BisectRange(n1)
         ELSE IF n1.count > n2.count
         THEN IF n1.hasData THEN BisectRange(n1)
              ELSE bisectLoop(BreakDown(stack1, n1), stack2)
         ELSE IF n2.count > n1.count
         THEN IF n2.hasData THEN LargerLeafN2(n1, n2)
              ELSE bisectLoop(stack1, BreakDown(stack2, n2))
         ELSE IF n1.hasData \/ n2.hasData THEN BisectRange(n1)
         ELSE bisectLoop(BreakDown(stack1, n1), BreakDown(stack2, n2))

bisectIterative(root1, root2) == bisectLoop(<<root1>>, <<root2>>)

TreeBisect(b, other) == bisectIterative(RootNode(b), RootNode(other))

---------------------------------------------------------------------------
(* The state machine.  bld holds the two builders; hist[x] is the record   *)
(* of what builder x was given (the blocks it accepted, whether it only    *)
(* ever received Push calls, whether every call returned no error); last   *)
(* is the last call with its arguments and results; synced tells that      *)
(* "other", freshly created with b's config, was given Restore of a        *)
(* snapshot of "b", itself reached by Push calls only, and that both       *)
(* received the same calls since.                                          *)

NewHist == [blocks |-> <<>>, pushOnly |-> TRUE, noErr |-> TRUE]

InitWith(cfgB, cfgOther) ==
    /\ bld = [x \in Builders |->
                IF x = "b" THEN NewBuilder(cfgB) ELSE NewBuilder(cfgOther)]
    /\ hist = [x \in Builders |-> NewHist]
    /\ last = [op |-> "Init"]
    /\ synced = FALSE

Take(s, n) == SubSeq(s, 1, n)

(* the (height, hash) pairs of the first `accepted` elements of a batch *)
AcceptedBlocks(b, startHeight, blockHashes, accepted) ==
    [i \in 1..accepted |->
       <<(IF b.enforceHeights THEN b.expectedNextHeight ELSE startHeight)
          + (i - 1), blockHashes[i]>>]

(* the batch stays within the explored heights and block count *)
PushInBounds(b, startHeight, blockHashes) ==
    /\ b.totalBlocks + Len(blockHashes) <= MaxBlocks
    /\ (IF b.enforceHeights THEN b.expectedNextHeight ELSE startHeight)
         + Len(blockHashes) - 1 <= MaxHeight

PushOp(who, startHeight, blockHashes) ==
    /\ who # {}
    /\ \A x \in who : PushInBounds(bld[x], startHeight, blockHashes)
    /\ LET r == [x \in who |-> Push(bld[x], startHeight, blockHashes)]
       IN /\ bld' = [x \in Builders |-> IF x \in who THEN r[x].b ELSE bld[x]]
          /\ hist' = [x \in Builders |->
                        IF x \in who
                        THEN [blocks |-> hist[x].blocks \o
                                AcceptedBlocks(bld[x], startHeight, blockHashes,
                                               r[x].accepted),
                              pushOnly |-> hist[x].pushOnly,
                              noErr |-> hist[x].noErr /\ r[x].err = NoErr]
                        ELSE hist[x]]
          /\ last' = [op |-> "Push", who |-> who, startHeight |-> startHeight,
                      res |-> [x \in who |-> [accepted |-> r[x].accepted,
                                              err |-> r[x].err]]]
          /\ synced' = (synced /\ who = Builders)

FinalizeOp(x) ==
    LET r == Finalize(bld[x])
    IN /\ bld' = [bld EXCEPT ![x] = r.b]
       /\ hist' = [hist EXCEPT ![x].pushOnly = FALSE,
                               ![x].noErr = @ /\ r.err = NoErr]
       /\ last' = [op |-> "Finalize", who |-> {x}, root |-> r.root,
                   err |-> r.err,
                   again |-> last.op = "Finalize" /\ last.err = NoErr]
       /\ synced' = FALSE

---------------------------------------------------------------------------
(* SpecPush: one builder "b", any config, Push and Finalize.               *)

MaxBlockMerge == 3

MaxStartHeight == 1

StartHeights == {<<>>} \cup {<<h>> : h \in 0..MaxStartHeight}

Configs == [BlockMerge : 1..MaxBlockMerge, StartHeight : StartHeights]

InitPush == \E cfg \in Configs : InitWith(cfg, cfg)

NextPush ==
    \/ \E h \in Heights, hs \in Batches : PushOp({"b"}, h, hs)
    \/ FinalizeOp("b")

SpecPush == InitPush /\ [][NextPush]_vars

---------------------------------------------------------------------------
(* Snapshots handed to Restore: the snapshot of the source builder, as it  *)
(* is or damaged: cut after k bytes (at the start of a field or one byte   *)
(* into it), with another version byte, with another blockMerge, with a    *)
(* declared inChunkCount above blockMerge, or with an oversized peak count *)
(* followed by as many presence bytes 0.                                   *)

(* the widths of the fields of the snapshot of b, in the order written *)
FieldWidths(b) ==
    <<1, U32Len, 1>>
    \o (IF b.enforceHeights THEN <<U64Len>> ELSE <<>>)
    \o <<U64Len, U64Len, U32Len>>
    \o [i \in 1..Len(b.inChunkElems) |-> HashLen]
    \o <<U64Len, U32Len>>
    \o ConcatAll([i \in 1..Len(b.outer.peaks) |->
                    IF b.outer.peaks[i] = Nil THEN <<1>>
                    ELSE <<1, U64Len, U32Len, HashLen>>])

RECURSIVE SumTo(_, _)
SumTo(ws, n) == IF n = 0 THEN 0 ELSE ws[n] + SumTo(ws, n - 1)

(* the offsets at which the fields of the snapshot of b start *)
FieldOffsets(b) ==
    {SumTo(FieldWidths(b), n) : n \in 0..(Len(FieldWidths(b)) - 1)}

(* offset of the inChunkCount field in the snapshot of b *)
InChunkCountOffset(b) ==
    1 + U32Len + 1 + (IF b.enforceHeights THEN U64Len ELSE 0) + U64Len + U64Len

(* offset of the peakCount field in the snapshot of b *)
PeakCountOffset(b) ==
    InChunkCountOffset(b) + U32Len + Len(b.inChunkElems) * HashLen + U64Len

(* a declared peak count above the ceiling of 128 *)
OversizedPeakCount == 129

ReplaceAt(s, offset, bytes) ==
    [i \in 1..Len(s) |->
       IF i > offset /\ i <= offset + Len(bytes) THEN bytes[i - offset] ELSE s[i]]

Damaged(b, m) ==
    LET snap == Snapshot(b)
    IN CASE m.kind = "none" -> snap
         [] m.kind = "trunc" -> Take(snap, m.k)
         [] m.kind = "version" -> ReplaceAt(snap, 0, <<IntByte(0)>>)
         [] m.kind = "blockMerge" ->
                ReplaceAt(snap, 1, writeU32(b.cfg.BlockMerge + 1))
         [] m.kind = "inChunkCount" ->
                ReplaceAt(snap, InChunkCountOffset(b),
                          writeU32(b.cfg.BlockMerge + 1))
         [] m.kind = "peakCount" ->
                Take(snap, PeakCountOffset(b))
                \o writeU32(OversizedPeakCount) \o ZeroBytes(OversizedPeakCount)

Damages(b) ==
    {[kind |-> k] :
       k \in {"none", "version", "blockMerge", "inChunkCount", "peakCount"}}
    \cup {[kind |-> "trunc", k |-> k] :
            k \in {j \in FieldOffsets(b) \cup {o + 1 : o \in FieldOffsets(b)} :
                     j < Len(Snapshot(b))}}

(* x.Restore(damaged snapshot of y) *)
RestoreOp(x, y, m) ==
    LET r == Restore(bld[x], Damaged(bld[y], m))
    IN /\ bld' = [bld EXCEPT ![x] = r.b]
       /\ hist' = [hist EXCEPT ![x] = [blocks |-> hist[y].blocks,
                                       pushOnly |-> FALSE,
                                       noErr |-> hist[x].noErr /\ r.err = NoErr]]
       /\ last' = [op |-> "Restore", who |-> {x}, damage |-> m.kind,
                   err |-> r.err]
       /\ synced' = /\ m.kind = "none"
                    /\ bld[x] = NewBuilder(bld[y].cfg)
                    /\ hist[y].pushOnly

(* InnerMerkleForRange on the same hashes at two start heights; it is a    *)
(* function of its arguments alone and is called before anything else      *)
InnerMerkleOp(h1, h2, blockHashes, wrap) ==
    /\ last.op = "Init"
    /\ last' = [op |-> "InnerMerkleForRange", h1 |-> h1, h2 |-> h2,
                blockHashes |-> blockHashes, wrap |-> wrap,
                r1 |-> InnerMerkleForRange(h1, blockHashes, wrap),
                r2 |-> InnerMerkleForRange(h2, blockHashes, wrap)]
    /\ UNCHANGED <<bld, hist, synced>>

(* read-only queries: the result is recorded, the builders do not change *)
TreeDiffOp(x, y) ==
    /\ last' = [op |-> "TreeDiff", self |-> x, peer |-> y,
                diffs |-> TreeDiff(bld[x], bld[y])]
    /\ UNCHANGED <<bld, hist, synced>>

TreeBisectOp(x, y) ==
    /\ last' = [op |-> "TreeBisect", self |-> x, peer |-> y,
                res |-> TreeBisect(bld[x], bld[y])]
    /\ UNCHANGED <<bld, hist, synced>>

---------------------------------------------------------------------------
(* SpecSnap: "b" ingests, "other" (same BlockMerge, any StartHeight,       *)
(* possibly having ingested a batch of its own) restores a snapshot of     *)
(* "b", and both receive the same pushes afterwards.                       *)
(* "b" may also be finalized before the restore; damaged snapshots are    *)
(* taken of a "b" reached by Push calls alone.                             *)

SnapBlockMerge == 2
SnapMaxBlocks == 3
SnapMaxHeight == 2

SnapStartHeights == {<<>>, <<1>>}

InitSnap ==
    \E bm \in 1..SnapBlockMerge, sb \in SnapStartHeights, so \in SnapStartHeights :
       InitWith([BlockMerge |-> bm, StartHeight |-> sb],
                [BlockMerge |-> bm, StartHeight |-> so])

NextSnap ==
    \/ \E h \in 0..SnapMaxHeight, hs \in OnesBatches :
          /\ hist["other"].pushOnly
          /\ Len(hist["b"].blocks) + Len(hs) <= SnapMaxBlocks
          /\ PushOp({"b"}, h, hs)
    \/ \E h \in Heights :
          /\ last.op = "Init"
          /\ PushOp({"other"}, h, <<1>>)
    \/ /\ hist["other"].pushOnly
       /\ FinalizeOp("b")
    \/ \E m \in Damages(bld["b"]) :
          /\ hist["other"].pushOnly
          /\ hist["b"].pushOnly \/ m.kind = "none"
          /\ RestoreOp("other", "b", m)
    \/ \E h \in Heights, hs \in OnesBatches :
          /\ synced
          /\ PushOp(Builders, h, hs)

SpecSnap == InitSnap /\ [][NextSnap]_vars

---------------------------------------------------------------------------
(* SpecDiff: two builders with the same BlockMerge, "b" in lax mode (any   *)
(* heights, gaps included) and "other" in strict mode from height 0,       *)
(* ingest and finalize independently and are compared by TreeDiff and      *)
(* TreeBisect in both directions.                                          *)

DiffMaxBlockMerge == 2
DiffMaxBlocks == 3
DiffMaxHeight == 3
DiffMaxBatch == 2

InitDiff ==
    \E bm \in 1..DiffMaxBlockMerge :
       InitWith([BlockMerge |-> bm, StartHeight |-> <<>>],
                [BlockMerge |-> bm, StartHeight |-> <<0>>])

(* every height builder x ingested so far is below h *)
Above(x, h) == \A i \in 1..Len(hist[x].blocks) : hist[x].blocks[i][1] < h

NextDiff ==
    \/ \E h \in 0..DiffMaxHeight, hs \in Batches :
          /\ Len(hs) <= DiffMaxBatch
          /\ h + Len(hs) - 1 <= DiffMaxHeight
          /\ Len(hist["b"].blocks) + Len(hs) <= DiffMaxBlocks
          /\ Above("b", h)
          /\ PushOp({"b"}, h, hs)
    \/ \E hs \in OnesBatches :
          /\ Len(hist["other"].blocks) + Len(hs) <= DiffMaxBlocks
          /\ PushOp({"other"}, bld["other"].expectedNextHeight, hs)
    \/ \E x \in Builders : FinalizeOp(x)
    \/ \E x \in Builders : TreeDiffOp(x, CHOOSE y \in Builders : y # x)
    \/ \E x \in Builders : TreeBisectOp(x, CHOOSE y \in Builders : y # x)
    \/ /\ last.op = "Init"
       /\ \E h1 \in 0..DiffMaxHeight, h2 \in 0..DiffMaxHeight, hs \in Batches,
             wrap \in BOOLEAN :
             InnerMerkleOp(h1, h2, hs, wrap)

SpecDiff == InitDiff /\ [][NextDiff]_vars

---------------------------------------------------------------------------
(* MultiBisect.  The call in progress is kept in `last`: the concurrency   *)
(* k, the position of the calling goroutine (pc, and level while it scans  *)
(* the peaks), the goroutines gs, the list diffs appended under the mutex, *)
(* and the result once the call returned.  A goroutine is either waiting   *)
(* for a semaphore slot or running a stack of checkNode calls (last        *)
(* element on top); a frame is a pair of nodes and the position in         *)
(* checkNode: "head", "append" (inside the mutex), "left", "right" or      *)
(* "ret" (run to its end, a call made from it still running).  Every       *)
(* running goroutine holds one slot of the semaphore; wg is the counter of *)
(* the WaitGroup and mu tells whether the mutex is held.                   *)

(* a semaphore made with the concurrency as given *)
ClampConcurrencyNone(k) == k

ClampConcurrency(k) == IF k < 1 THEN 1 ELSE k

(* the Root of a child or peak, Hash32{} when it is nil *)
RootOf(n) == IF n = Nil THEN ZeroHash ELSE n.sum

(* the range reported when one of the two nodes is nil *)
NilRange(n1, n2) == IF n1 # Nil THEN DiffRange(n1) ELSE DiffRange(n2)

(* the first part of checkNode: report a range, stop, or go to the children *)
CheckNodeHead(n1, n2) ==
    IF n1 = Nil \/ n2 = Nil THEN [kind |-> "diff", range |-> NilRange(n1, n2)]
    ELSE IF n1.sum = n2.sum THEN [kind |-> "same"]
    ELSE IF n1.hasData THEN [kind |-> "diff", range |-> DiffRange(n1)]
    ELSE [kind |-> "descend"]

(* a pair of children (or of peaks) that is traversed *)
ChildDiffers(c1, c2) == (c1 # Nil \/ c2 # Nil) /\ RootOf(c1) # RootOf(c2)

Frame(n1, n2) == [n1 |-> n1, n2 |-> n2, pc |-> "head"]

(* the slots of the semaphore in use *)
SemHeld(gs) == Cardinality({g \in gs : g.state = "run"})

(* peak i (1-based) of a builder, nil beyond its peaks slice *)
PeakAt(b, i) == IF i <= Len(b.outer.peaks) THEN b.outer.peaks[i] ELSE Nil

MaxLevel(b, other) ==
    IF Len(other.outer.peaks) > Len(b.outer.peaks)
    THEN Len(other.outer.peaks) ELSE Len(b.outer.peaks)

(* the comparison of the two partial chunk buffers: no range or one *)
BufferDiffs(b, other) ==
    IF Len(b.inChunkElems) # Len(other.inChunkElems)
    THEN LET start == IF Len(other.inChunkElems) > 0
                      THEN other.inChunkStart ELSE b.inChunkStart
             count == IF Len(other.inChunkElems) > Len(b.inChunkElems)
                      THEN Len(other.inChunkElems) ELSE Len(b.inChunkElems)
         IN IF count > 0 THEN <<[Start |-> start, Count |-> count]>> ELSE <<>>
    ELSE IF \E i \in 1..Len(b.inChunkElems) :
               b.inChunkElems[i] # other.inChunkElems[i]
         THEN <<[Start |-> b.inChunkStart, Count |-> Len(b.inChunkElems)]>>
         ELSE <<>>

---------------------------------------------------------------------------
(* consolidateDiffs works on DiffRange values at their Go widths (Start    *)
(* uint64, Count uint32), held in two limbs.                               *)

WidenRange(r) == [Start |-> W(r.Start), Count |-> W(r.Count)]
WidenRanges(diffs) == [i \in 1..Len(diffs) |-> WidenRange(diffs[i])]

(* the less function given to sort.Slice *)
DiffLess(x, y) ==
    IF x.Start = y.Start THEN WLess(y.Count, x.Count)
    ELSE WLess(x.Start, y.Start)

(* the sorted slice: elements that compare equal are identical *)
RECURSIVE InsertSorted(_, _)
InsertSorted(sorted, x) ==
    IF sorted = <<>> THEN <<x>>
    ELSE IF DiffLess(x, Head(sorted)) THEN <<x>> \o sorted
    ELSE <<Head(sorted)>> \o InsertSorted(Tail(sorted), x)

(* the slice left in the order of arrival *)
SortDiffsArrival(diffs) == diffs

(* (the sorted tail is bound as an element of a one-element set, so that  *)
(* it is computed once)                                                    *)
RECURSIVE SortDiffs(_)
SortDiffs(diffs) ==
    IF diffs = <<>> THEN <<>>
    ELSE CHOOSE sorted \in {InsertSorted(tail, Head(diffs)) :
                               tail \in {SortDiffs(Tail(diffs))}} : TRUE

(* the merge loop of consolidateDiffs, from index i (1-based) on *)
RECURSIVE ConsolidateLoop(_, _, _, _)
ConsolidateLoop(diffs, i, current, result) ==
    IF i > Len(diffs) THEN Append(result, current)
    ELSE
      LET next == diffs[i]
          currEnd == WAdd(current.Start, current.Count)
          nextEnd == WAdd(next.Start, next.Count)
      IN IF WLeq(next.Start, currEnd)
         THEN IF WLess(currEnd, nextEnd)
              THEN ConsolidateLoop(diffs, i + 1,
                     [current EXCEPT !.Count = U32(WSub(nextEnd, current.Start))],
                     result)
              ELSE ConsolidateLoop(diffs, i + 1, current, result)
         ELSE ConsolidateLoop(diffs, i + 1, next, Append(result, current))

consolidateDiffs(diffs) ==
    IF Len(diffs) = 0 THEN <<>>
    ELSE CHOOSE result \in {ConsolidateLoop(sorted, 2, sorted[1], <<>>) :
                               sorted \in {SortDiffs(diffs)}} : TRUE

---------------------------------------------------------------------------
(* The steps of one call x.MultiBisect(y, concurrency).  The main thread   *)
(* walks the peak levels from the highest down (pc "peaks"), compares the  *)
(* partial buffers (pc "buffer") and waits for the wait group (pc "wait"). *)
(* No two goroutines of one call compare the same pair of nodes, so the    *)
(* goroutines are kept as a set.                                           *)

MBRunning == last.op = "MultiBisect" /\ last.pc # "done"

MBStart(x, y, concurrency) ==
    /\ last.op # "MultiBisect"
    /\ last' = [op |-> "MultiBisect", self |-> x, peer |-> y,
                concurrency |-> concurrency,
                sem |-> ClampConcurrency(concurrency),
                pc |-> "peaks", level |-> MaxLevel(bld[x], bld[y]),
                gs |-> {}, diffs |-> <<>>, res |-> <<>>,
                ctx |-> <<>>, err |-> NoErr, wg |-> 0, mu |-> FALSE]
    /\ UNCHANGED <<bld, hist, synced>>

(* x.MultiBisectWithContext(ctx, y, concurrency): the context, cancelled   *)
(* or not, is kept for the record only; the call is x.MultiBisect(y,       *)
(* concurrency)                                                            *)
MultiBisectWithContext(cancelled, x, y, concurrency) ==
    /\ last.op # "MultiBisect"
    /\ \E call \in {[op |-> "MultiBisect", self |-> x, peer |-> y,
                      concurrency |-> concurrency,
                      sem |-> ClampConcurrency(concurrency),
                      pc |-> "peaks", level |-> MaxLevel(bld[x], bld[y]),
                      gs |-> {}, diffs |-> <<>>, res |-> <<>>,
                      ctx |-> <<>>, err |-> NoErr,
                      wg |-> 0, mu |-> FALSE]} :
          last' = [call EXCEPT !.ctx = <<cancelled>>]
    /\ UNCHANGED <<bld, hist, synced>>

(* one iteration of the loop over the peak levels *)
MBPeak ==
    /\ MBRunning /\ last.pc = "peaks"
    /\ IF last.level = 0
       THEN last' = [last EXCEPT !.pc = "buffer"]
       ELSE LET p1 == PeakAt(bld[last.self], last.level)
                p2 == PeakAt(bld[last.peer], last.level)
            IN IF (p1 # Nil \/ p2 # Nil) /\ RootOf(p1) # RootOf(p2)
               THEN last' = [last EXCEPT
                      !.level = @ - 1,
                      !.wg = @ + 1,
                      !.gs = @ \cup {[state |-> "waitSem",
                                      stack |-> <<Frame(p1, p2)>>]}]
               ELSE last' = [last EXCEPT !.level = @ - 1]
    /\ UNCHANGED <<bld, hist, synced>>

(* the comparison of the partial buffers; its append is made between     *)
(* mu.Lock() and mu.Unlock()                                               *)
MBBuffer ==
    /\ MBRunning /\ last.pc = "buffer"
    /\ BufferDiffs(bld[last.self], bld[last.peer]) # <<>> => ~last.mu
    /\ last' = [last EXCEPT
                  !.diffs = @ \o BufferDiffs(bld[last.self], bld[last.peer]),
                  !.pc = "wait"]
    /\ UNCHANGED <<bld, hist, synced>>

(* a return that does not wait for the wait group *)
MBReturnNoWait ==
    /\ MBRunning /\ last.pc = "wait"
    /\ last' = [last EXCEPT
                  !.res = consolidateDiffs(WidenRanges(last.diffs)),
                  !.pc = "done"]
    /\ UNCHANGED <<bld, hist, synced>>

(* wg.Wait() returns and the collected ranges are consolidated *)
MBReturn ==
    /\ MBRunning /\ last.pc = "wait"
    /\ last.wg = 0
    /\ last' = [last EXCEPT
                  !.res = consolidateDiffs(WidenRanges(last.diffs)),
                  !.pc = "done"]
    /\ UNCHANGED <<bld, hist, synced>>

(* a goroutine launched for a peak gets its slot: "sem <- struct{}{}" *)
GoAcquire ==
    /\ MBRunning
    /\ \E g \in last.gs :
          /\ g.state = "waitSem"
          /\ SemHeld(last.gs) < last.sem
          /\ last' = [last EXCEPT
                        !.gs = (@ \ {g}) \cup {[g EXCEPT !.state = "run"]}]
    /\ UNCHANGED <<bld, hist, synced>>

(* the number of frames on top of the stack whose checkNode has run to    *)
(* its end ("ret"): they return one after the other                        *)
RECURSIVE RetFrames(_)
RetFrames(stack) ==
    IF stack = <<>> \/ Head(stack).pc # "ret" THEN 0
    ELSE 1 + RetFrames(Tail(stack))

(* the goroutines after goroutine g's stack became `stack`: the frames     *)
(* that have run to their end return, and with an empty stack g gives its  *)
(* slot back and is gone                                                   *)
GoNext(gs, g, stack) ==
    LET rest == SubSeq(stack, RetFrames(stack) + 1, Len(stack))
    IN IF rest = <<>> THEN gs \ {g}
       ELSE (gs \ {g}) \cup {[g EXCEPT !.stack = rest]}

(* checkNode up to the children: nil check, equal roots, leaf.  A range is *)
(* appended under the mutex: this step takes it (mu.Lock()), GoAppend      *)
(* appends and gives it back.  A checkNode that returns makes wg.Done().   *)
GoHead ==
    /\ MBRunning
    /\ \E g \in last.gs :
          /\ g.state = "run"
          /\ Head(g.stack).pc = "head"
          /\ LET f == Head(g.stack)
                 h == CheckNodeHead(f.n1, f.n2)
             IN IF h.kind = "diff"
                THEN /\ ~last.mu
                     /\ last' = [last EXCEPT
                           !.mu = TRUE,
                           !.gs = GoNext(@, g,
                              <<[f EXCEPT !.pc = "append"]>> \o Tail(g.stack))]
                ELSE IF h.kind = "same"
                THEN last' = [last EXCEPT
                               !.wg = @ - 1 - RetFrames(Tail(g.stack)),
                               !.gs = GoNext(@, g, Tail(g.stack))]
                ELSE last' = [last EXCEPT
                               !.gs = GoNext(@, g,
                                  <<[f EXCEPT !.pc = "left"]>> \o Tail(g.stack))]
    /\ UNCHANGED <<bld, hist, synced>>

(* diffs = append(diffs, ...); mu.Unlock(); return *)
GoAppend ==
    /\ MBRunning
    /\ \E g \in last.gs :
          /\ g.state = "run"
          /\ Head(g.stack).pc = "append"
          /\ LET f == Head(g.stack)
             IN last' = [last EXCEPT
                   !.diffs = Append(@, CheckNodeHead(f.n1, f.n2).range),
                   !.mu = FALSE,
                   !.wg = @ - 1 - RetFrames(Tail(g.stack)),
                   !.gs = GoNext(@, g, Tail(g.stack))]
    /\ UNCHANGED <<bld, hist, synced>>

(* a select that starts a goroutine whether or not a slot is free *)
GoSelectAlwaysSpawn(gs, sem, g, c1, c2, rest) ==
    IF ~ChildDiffers(c1, c2)
    THEN [gs |-> GoNext(gs, g, rest), wg |-> 0 - RetFrames(rest)]
    ELSE [gs |-> GoNext(gs, g, rest)
                   \cup {[state |-> "run", stack |-> <<Frame(c1, c2)>>]},
          wg |-> 1 - RetFrames(rest)]

(* goroutine g, whose stack continues as `rest`, reached a select for the  *)
(* children c1, c2: a new goroutine when a slot is free, a synchronous     *)
(* call otherwise, wg.Add(1) in both cases.  The result is the goroutines  *)
(* after the step and the change of the WaitGroup counter.                 *)
GoSelect(gs, sem, g, c1, c2, rest) ==
    IF ~ChildDiffers(c1, c2)
    THEN [gs |-> GoNext(gs, g, rest), wg |-> 0 - RetFrames(rest)]
    ELSE IF SemHeld(gs) < sem
    THEN [gs |-> GoNext(gs, g, rest)
                   \cup {[state |-> "run", stack |-> <<Frame(c1, c2)>>]},
          wg |-> 1 - RetFrames(rest)]
    ELSE [gs |-> GoNext(gs, g, <<Frame(c1, c2)>> \o rest), wg |-> 1]

GoLeft ==
    /\ MBRunning
    /\ \E g \in last.gs :
          /\ g.state = "run"
          /\ Head(g.stack).pc = "left"
          /\ LET f == Head(g.stack)
                 sel == GoSelect(last.gs, last.sem, g, f.n1.left, f.n2.left,
                           <<[f EXCEPT !.pc = "right"]>> \o Tail(g.stack))
             IN last' = [last EXCEPT !.gs = sel.gs, !.wg = @ + sel.wg]
    /\ UNCHANGED <<bld, hist, synced>>

(* after the select for the right children checkNode has run to its end *)
GoRight ==
    /\ MBRunning
    /\ \E g \in last.gs :
          /\ g.state = "run"
          /\ Head(g.stack).pc = "right"
          /\ LET f == Head(g.stack)
                 sel == GoSelect(last.gs, last.sem, g, f.n1.right, f.n2.right,
                           <<[f EXCEPT !.pc = "ret"]>> \o Tail(g.stack))
             IN last' = [last EXCEPT !.gs = sel.gs, !.wg = @ + sel.wg]
    /\ UNCHANGED <<bld, hist, synced>>

---------------------------------------------------------------------------
(* SpecMB: two builders with the same BlockMerge, "b" in lax mode and      *)
(* "other" in strict mode from height 0, ingest (first "b", then "other")  *)
(* and are then compared by one MultiBisect call, either way round, or by  *)
(* one MultiBisectWithContext call, whose goroutines interleave freely.    *)
(* A call with concurrency 0 (clamped to 1) is made from "b" only.         *)

MBMaxBlockMerge == 2
MBMaxBlocks == 4
MBMaxHeight == 3
MBMaxBatch == 2
MaxConcurrency == 2

InitMB ==
    \E bm \in 1..MBMaxBlockMerge :
       InitWith([BlockMerge |-> bm, StartHeight |-> <<>>],
                [BlockMerge |-> bm, StartHeight |-> <<0>>])

NextMB ==
    \/ \E h \in 0..MBMaxHeight, hs \in Batches :
          /\ last.op # "MultiBisect"
          /\ Len(hs) <= MBMaxBatch
          /\ h + Len(hs) - 1 <= MBMaxHeight
          /\ Len(hist["b"].blocks) + Len(hs) <= MBMaxBlocks
          /\ Len(hist["other"].blocks) = 0
          /\ Above("b", h)
          /\ PushOp({"b"}, h, hs)
    \/ \E hs \in OnesBatches :
          /\ last.op # "MultiBisect"
          /\ Len(hs) <= MBMaxBatch
          /\ Len(hist["other"].blocks) + Len(hs) <= MBMaxBlocks
          /\ PushOp({"other"}, bld["other"].expectedNextHeight, hs)
    \/ \E x \in Builders, k \in 0..MaxConcurrency :
          /\ k = 0 => x = "b"
          /\ MBStart(x, CHOOSE y \in Builders : y # x, k)
    \/ \E cancelled \in BOOLEAN :
          MultiBisectWithContext(cancelled, "b", "other", 1)
    \/ MBPeak
    \/ MBBuffer
    \/ MBReturn
    \/ GoAcquire
    \/ GoHead
    \/ GoAppend
    \/ GoLeft
    \/ GoRight

SpecMB == InitMB /\ [][NextMB]_vars

(* the steps of the main thread and of the goroutines of a call *)
MBStep ==
    \/ MBPeak \/ MBBuffer \/ MBReturn
    \/ GoAcquire \/ GoHead \/ GoAppend \/ GoLeft \/ GoRight

(* SpecMBFair: the calls of SpecMB on builders of up to MBFairMaxBlocks     *)
(* blocks each, under a scheduler that does not stop all threads of a call *)
(* for ever while one of them can take a step; when the builders are       *)
(* compared is left open                                                   *)

MBFairMaxBlocks == 3

NextMBFair ==
    /\ NextMB
    /\ \A x \in Builders : Len(hist'[x].blocks) <= MBFairMaxBlocks

SpecMBFair == InitMB /\ [][NextMBFair]_vars /\ WF_vars(MBStep)

---------------------------------------------------------------------------
(* SpecCons: consolidateDiffs applied to any list of up to MaxRanges       *)
(* DiffRange values, built one range at a time; Start is small and Count   *)
(* is small or the largest uint32.                                         *)

MaxRanges == 3
MaxStart == 3
MaxCount == 2

MaxUint32 == [hi |-> LimbBase - 1, lo |-> LimbBase - 1]

DiffRanges ==
    [Start : {W(v) : v \in 0..MaxStart},
     Count : {W(v) : v \in 0..MaxCount} \cup {MaxUint32}]

AppendRange(r) ==
    /\ last.op \in {"Init", "diffs"}
    /\ Len(IF last.op = "Init" THEN <<>> ELSE last.diffs) < MaxRanges
    /\ last' = [op |-> "diffs",
                diffs |-> Append(IF last.op = "Init" THEN <<>> ELSE last.diffs, r)]
    /\ UNCHANGED <<bld, hist, synced>>

ConsolidateOp ==
    /\ last.op \in {"Init", "diffs"}
    /\ LET diffs == IF last.op = "Init" THEN <<>> ELSE last.diffs
       IN last' = [op |-> "consolidateDiffs", diffs |-> diffs,
                   res |-> consolidateDiffs(diffs)]
    /\ UNCHANGED <<bld, hist, synced>>

InitCons ==
    InitWith([BlockMerge |-> 1, StartHeight |-> <<>>],
             [BlockMerge |-> 1, StartHeight |-> <<>>])

NextCons ==
    \/ \E r \in DiffRanges : AppendRange(r)
    \/ ConsolidateOp

SpecCons == InitCons /\ [][NextCons]_vars

---------------------------------------------------------------------------
(* SpecComb: the combine step of AddLeaf applied to any left peak and any  *)
(* carry that continues it, with counts at their uint32 width: small       *)
(* counts, 2^31 (two equal peaks of 2^31 blocks each are what a builder    *)
(* merges when its 2^32nd block is committed) and the largest uint32.      *)

MaxPeakStart == 3

HalfUint32 == [hi |-> LimbBase \div 2, lo |-> 0]

PeakCounts == {W(v) : v \in 1..MaxCount} \cup {HalfUint32, MaxUint32}

(* left := a.peaks[level]; right := carry, past the contiguity check *)
PeakPairs ==
    {pair \in [left : [start : {W(v) : v \in 0..MaxPeakStart},
                       count : PeakCounts],
               right : [start : {WAdd(W(v), c) :
                                   v \in 0..MaxPeakStart, c \in PeakCounts},
                        count : PeakCounts]] :
        WAdd(pair.left.start, pair.left.count) = pair.right.start}

TakePeaks(pair) ==
    /\ last.op = "Init"
    /\ last' = [op |-> "peaks", left |-> pair.left, right |-> pair.right]
    /\ UNCHANGED <<bld, hist, synced>>

(* the node carried to the next level *)
CombineStep ==
    /\ last.op = "peaks"
    /\ last' = [op |-> "combine", left |-> last.left, right |-> last.right,
                carry |-> [start |-> last.left.start,
                           count |-> combinedCount(last.left.count,
                                                   last.right.count)]]
    /\ UNCHANGED <<bld, hist, synced>>

InitComb ==
    InitWith([BlockMerge |-> 1, StartHeight |-> <<>>],
             [BlockMerge |-> 1, StartHeight |-> <<>>])

NextComb ==
    \/ \E pair \in PeakPairs : TakePeaks(pair)
    \/ CombineStep

SpecComb == InitComb /\ [][NextComb]_vars

---------------------------------------------------------------------------
(* Helpers of the properties                                               *)

HistHashes(x) == [i \in 1..Len(hist[x].blocks) |-> hist[x].blocks[i][2]]

(* builder x ingested consecutive heights h, h+1, ... *)
Consecutive(x) ==
    \A i \in 1..Len(hist[x].blocks) :
       hist[x].blocks[i][1] = hist[x].blocks[1][1] + (i - 1)

(* the last n block hashes builder x accepted, after the step *)
LastAccepted(blocks, n) ==
    [i \in 1..n |-> blocks[Len(blocks) - n + i][2]]

(* what Finalize returns: the root and the error *)
Finalized(b) == [root |-> Finalize(b).root, err |-> Finalize(b).err]

(* the (height, hash) pairs builder x holds, and their heights *)
BlocksOf(x) == {hist[x].blocks[i] : i \in 1..Len(hist[x].blocks)}
HeightsOf(x) == {p[1] : p \in BlocksOf(x)}

(* the heights at which x and y hold different hashes, or only one of them *)
(* holds a block                                                           *)
DiffHeights(x, y) ==
    {h \in HeightsOf(x) \cup HeightsOf(y) :
       {p \in BlocksOf(x) : p[1] = h} # {p \in BlocksOf(y) : p[1] = h}}

MinOf(S) == CHOOSE m \in S : \A n \in S : m <= n

(* the first height of the chunk of builder x that contains height h, for  *)
(* a builder whose chunks are all full                                     *)
ChunkStartOf(x, h) ==
    LET i == CHOOSE j \in 1..Len(hist[x].blocks) : hist[x].blocks[j][1] = h
        bm == bld[x].cfg.BlockMerge
    IN hist[x].blocks[((i - 1) \div bm) * bm + 1][1]

BufferEmpty(x) == Len(bld[x].inChunkElems) = 0

---------------------------------------------------------------------------
(* C1  Order-of-push invariance.  Whenever builder "b" (strict or lax, any *)
(* BlockMerge) has been fed a sequence of block hashes at consecutive      *)
(* heights by successive Push calls, split in any way into batches each    *)
(* pushed at the height of its first element, Finalize returns the root    *)
(* that a new builder of the same config returns after one Push of the     *)
(* whole sequence.                                                         *)
C1_OrderOfPushInvariance ==
    (/\ hist["b"].pushOnly
     /\ hist["b"].noErr
     /\ hist["b"].blocks # <<>>
     /\ Consecutive("b"))
    => LET whole == Push(NewBuilder(bld["b"].cfg),
                         hist["b"].blocks[1][1], HistHashes("b"))
       IN /\ whole.err = NoErr
          /\ whole.accepted = Len(hist["b"].blocks)
          /\ Finalized(bld["b"]) = Finalized(whole.b)
          /\ Finalized(bld["b"]).err = NoErr
          /\ Finalized(bld["b"]).root # ZeroHash

(* a sequence split into at least two batches, across a chunk boundary *)
C1_Witness ==
    /\ hist["b"].pushOnly /\ hist["b"].noErr /\ Consecutive("b")
    /\ last.op = "Push"
    /\ last.res["b"].accepted >= 1
    /\ last.res["b"].accepted < Len(hist["b"].blocks)
    /\ bld["b"].outer.leafCount >= 1
    /\ Len(bld["b"].inChunkElems) >= 1
    /\ bld["b"].cfg.BlockMerge >= 2

---------------------------------------------------------------------------
(* C5  Strict-mode contiguity.  A Push of a non-empty batch on a strict    *)
(* builder whose startHeight differs from expectedNextHeight returns       *)
(* accepted = 0 with the unexpected-start error and changes no field of    *)
(* the builder; a Push whose startHeight equals expectedNextHeight does    *)
(* not fail the start check.                                               *)
C5_StrictStartCheck ==
    [][(last'.op = "Push" /\ "b" \in last'.who /\ bld["b"].enforceHeights)
       => IF last'.startHeight # bld["b"].expectedNextHeight
          THEN /\ last'.res["b"] = [accepted |-> 0, err |-> ErrUnexpectedStart]
               /\ bld'["b"] = bld["b"]
               /\ hist'["b"].blocks = hist["b"].blocks
          ELSE last'.res["b"].err # ErrUnexpectedStart]_vars

(* a strict builder that ingested blocks has just rejected a batch start *)
C5_Witness ==
    /\ last.op = "Push"
    /\ bld["b"].enforceHeights
    /\ last.res["b"].err = ErrUnexpectedStart
    /\ last.startHeight # bld["b"].expectedNextHeight
    /\ bld["b"].totalBlocks >= 1

---------------------------------------------------------------------------
---------------------------------------------------------------------------
(* C7  Push failure semantics.  Whenever Push returns (accepted, error)    *)
(* with an error, the builder is in the state that a Push of the first     *)
(* `accepted` elements of the batch, returning no error, produces from     *)
(* the state before the call.                                              *)
C7_PushFailureIsPrefixPush ==
    [][(last'.op = "Push" /\ "b" \in last'.who
        /\ last'.res["b"].err # NoErr)
       => LET prefix == LastAccepted(hist'["b"].blocks,
                                     last'.res["b"].accepted)
              r == Push(bld["b"], last'.startHeight, prefix)
          IN /\ r.err = NoErr
             /\ r.accepted = last'.res["b"].accepted
             /\ r.b = bld'["b"]]_vars

---------------------------------------------------------------------------
(* C2  Snapshot round-trip.  When "b" was reached by Push calls only and   *)
(* "other", created with the same config, is given Restore(Snapshot(b)),   *)
(* the Restore returns no error and from then on every Push applied to     *)
(* both returns the same (accepted, error) pair on both, and Finalize      *)
(* returns the same root and error on both.                                *)
C2_SnapshotRoundTrip ==
    synced
    => /\ last.op = "Restore" => last.err = NoErr
       /\ (last.op = "Push" /\ last.who = Builders)
          => last.res["b"] = last.res["other"]
       /\ Finalized(bld["b"]) = Finalized(bld["other"])

---------------------------------------------------------------------------
(* C3  A Restore that returns an error leaves every field of the builder   *)
(* as it was before the call.                                              *)
C3_FailedRestoreLeavesBuilderUnchanged ==
    [][(last'.op = "Restore" /\ last'.err # NoErr)
       => bld'["other"] = bld["other"]]_vars

---------------------------------------------------------------------------
(* C4  A successful Restore of the snapshot of S into T (same BlockMerge,  *)
(* any StartHeight configuration, any earlier ingestion) makes T.State()   *)
(* equal to S.State() in TotalBlocks, Committed, InChunkCount, NextHeight. *)
C4_RestoreReplacesState ==
    [][(last'.op = "Restore" /\ last'.damage = "none" /\ last'.err = NoErr)
       => State(bld'["other"]) = State(bld["b"])]_vars

---------------------------------------------------------------------------
(* C8  Diff completeness.  Every height at which the two builders hold     *)
(* different hashes, or at which only one of them holds a block (blocks    *)
(* still in a partial chunk buffer included), lies inside a range that     *)
(* TreeDiff returns.                                                       *)
C8_DiffCompleteness ==
    (last.op = "TreeDiff" /\ hist["b"].noErr /\ hist["other"].noErr)
    => \A h \in DiffHeights(last.self, last.peer) :
          \E i \in 1..Len(last.diffs) :
             /\ last.diffs[i].Start <= h
             /\ h < last.diffs[i].Start + last.diffs[i].Count

---------------------------------------------------------------------------
(* C9  Bisect soundness.  For builders that start at the same height and   *)
(* whose blocks are all committed, short tail chunks committed by Finalize *)
(* included, TreeBisect returns (0,0) and the builders hold the same       *)
(* blocks at the same heights, or a range of count >= 1 containing a       *)
(* height at which they differ.                                            *)
C9_BisectSoundness ==
    (/\ last.op = "TreeBisect"
     /\ hist["b"].noErr /\ hist["other"].noErr
     /\ BufferEmpty("b") /\ BufferEmpty("other")
     /\ hist["b"].blocks # <<>> /\ hist["other"].blocks # <<>>
     /\ hist["b"].blocks[1][1] = hist["other"].blocks[1][1]
     /\ ~last.res.fault)
    => IF last.res.start = 0 /\ last.res.count = 0
       THEN DiffHeights(last.self, last.peer) = {}
       ELSE /\ last.res.count >= 1
            /\ \E h \in DiffHeights(last.self, last.peer) :
                  /\ last.res.start <= h
                  /\ h < last.res.start + last.res.count

---------------------------------------------------------------------------
(* C10  TreeBisect returns the leftmost differing range at leaf            *)
(* granularity.                                                            *)

(* both builders were built by Push only, hold a multiple of BlockMerge    *)
(* blocks, start at the same height and differ somewhere                   *)
C10_Case ==
    /\ last.op = "TreeBisect"
    /\ hist["b"].pushOnly /\ hist["other"].pushOnly
    /\ hist["b"].noErr /\ hist["other"].noErr
    /\ hist["b"].blocks # <<>> /\ hist["other"].blocks # <<>>
    /\ Len(hist["b"].blocks) % bld["b"].cfg.BlockMerge = 0
    /\ Len(hist["other"].blocks) % bld["other"].cfg.BlockMerge = 0
    /\ hist["b"].blocks[1][1] = hist["other"].blocks[1][1]
    /\ DiffHeights("b", "other") # {}

(* the result is the chunk of the smallest differing height *)
C10_Leftmost ==
    LET h == MinOf(DiffHeights("b", "other"))
        holders == {x \in Builders : h \in HeightsOf(x)}
    IN /\ ~last.res.fault
       /\ last.res.start \in {ChunkStartOf(x, h) : x \in holders}
       /\ holders = Builders => last.res.count = bld["b"].cfg.BlockMerge

---------------------------------------------------------------------------
(* C11  TreeBisect on two builders holding the same blocks at the same     *)
(* heights returns (0,0) with no error and without a fault, two empty      *)
(* builders (both root nodes nil) included.                                *)
C11_BisectIdentical ==
    (/\ last.op = "TreeBisect"
     /\ hist["b"].noErr /\ hist["other"].noErr
     /\ BlocksOf("b") = BlocksOf("other"))
    => last.res = [start |-> 0, count |-> 0, fault |-> FALSE]

---------------------------------------------------------------------------
(* C12  Prefix case of TreeDiff.                                           *)

RECURSIVE SumCounts(_)
SumCounts(diffs) ==
    IF diffs = <<>> THEN 0 ELSE Head(diffs).Count + SumCounts(Tail(diffs))

(* the builder that ran TreeDiff holds n blocks from height 0, its peer    *)
(* the first m < n of them, both built by Push only, m and n multiples of  *)
(* BlockMerge                                                              *)
C12_Case ==
    /\ last.op = "TreeDiff"
    /\ hist["b"].pushOnly /\ hist["other"].pushOnly
    /\ hist["b"].noErr /\ hist["other"].noErr
    /\ Len(hist[last.self].blocks) % bld[last.self].cfg.BlockMerge = 0
    /\ Len(hist[last.peer].blocks) % bld[last.peer].cfg.BlockMerge = 0
    /\ Len(hist[last.peer].blocks) < Len(hist[last.self].blocks)
    /\ hist[last.self].blocks[1][1] = 0
    /\ hist[last.peer].blocks =
         Take(hist[last.self].blocks, Len(hist[last.peer].blocks))

(* the ranges start at m, the first one exactly, and their counts sum to   *)
(* n - m                                                                   *)
C12_Ranges ==
    LET m == Len(hist[last.peer].blocks)
        n == Len(hist[last.self].blocks)
    IN /\ last.diffs # <<>>
       /\ last.diffs[1].Start = m
       /\ \A i \in 1..Len(last.diffs) : last.diffs[i].Start >= m
       /\ SumCounts(last.diffs) = n - m

---------------------------------------------------------------------------
(* The ranges one MultiBisect call collects when nothing runs in parallel: *)
(* the peaks from the highest level down, each traversed depth first,      *)
(* then the partial buffers.                                               *)

RECURSIVE CheckNodeSeq(_, _)
CheckNodeSeq(n1, n2) ==
    LET h == CheckNodeHead(n1, n2)
    IN IF h.kind = "diff" THEN <<h.range>>
       ELSE IF h.kind = "same" THEN <<>>
       ELSE (IF ChildDiffers(n1.left, n2.left)
             THEN CheckNodeSeq(n1.left, n2.left) ELSE <<>>)
            \o (IF ChildDiffers(n1.right, n2.right)
                THEN CheckNodeSeq(n1.right, n2.right) ELSE <<>>)

RECURSIVE PeaksSeq(_, _, _)
PeaksSeq(b, other, i) ==
    IF i = 0 THEN <<>>
    ELSE (IF ChildDiffers(PeakAt(b, i), PeakAt(other, i))
          THEN CheckNodeSeq(PeakAt(b, i), PeakAt(other, i)) ELSE <<>>)
         \o PeaksSeq(b, other, i - 1)

SeqDiffs(b, other) ==
    PeaksSeq(b, other, MaxLevel(b, other)) \o BufferDiffs(b, other)

MBDone == last.op = "MultiBisect" /\ last.pc = "done"

(* C13: whatever the concurrency (0 counts as 1) and however the           *)
(* goroutines of a MultiBisect call interleave, the call returns the list  *)
(* that the sequential traversal of the same two builders returns.         *)
C13_MultiBisectEquivalence ==
    MBDone =>
      last.res = consolidateDiffs(WidenRanges(
                    SeqDiffs(bld[last.self], bld[last.peer])))

(* a call with two slots whose ranges arrived in another order than the    *)
(* sequential one *)
C13_Witness ==
    /\ MBDone
    /\ last.concurrency >= 2
    /\ Len(last.diffs) >= 2
    /\ last.diffs # SeqDiffs(bld[last.self], bld[last.peer])
    /\ last.res = consolidateDiffs(WidenRanges(
                     SeqDiffs(bld[last.self], bld[last.peer])))

(* the two builders of the call hold the same number of blocks, from the   *)
(* same first height on, all accepted without error                        *)
SameShape ==
    /\ hist["b"].noErr /\ hist["other"].noErr
    /\ Len(hist["b"].blocks) = Len(hist["other"].blocks)
    /\ Len(hist["b"].blocks) >= 1
    /\ hist["b"].blocks[1][1] = hist["other"].blocks[1][1]

(* C14: for two builders with the same BlockMerge, the same first height   *)
(* and the same number of blocks, MultiBisect returns the consolidated     *)
(* list of TreeDiff.                                                       *)
C14_MultiBisectIsTreeDiff ==
    (MBDone /\ SameShape) =>
      last.res = consolidateDiffs(WidenRanges(
                    TreeDiff(bld[last.self], bld[last.peer])))

(* height h lies inside a range of the returned list *)
Covered(res, h) ==
    \E i \in 1..Len(res) :
       /\ WValue(res[i].Start) <= h
       /\ h < WValue(res[i].Start) + WValue(res[i].Count)

(* C15: every height at which the two builders hold different hashes, or   *)
(* at which only one of them holds a block, lies inside a range that       *)
(* MultiBisect returns; stated for builders whose blocks are all in        *)
(* committed chunks (the partial buffers are the subject of C16).          *)
C15_MultiBisectFindsAll ==
    (/\ MBDone /\ hist["b"].noErr /\ hist["other"].noErr
     /\ BufferEmpty("b") /\ BufferEmpty("other"))
    => \A h \in DiffHeights(last.self, last.peer) : Covered(last.res, h)

(* range r covers the heights [inChunkStart, inChunkStart+len) of the      *)
(* partial buffer of builder x                                             *)
CoversBuffer(r, x) ==
    Len(bld[x].inChunkElems) > 0 =>
       /\ r.Start <= bld[x].inChunkStart
       /\ bld[x].inChunkStart + Len(bld[x].inChunkElems) <= r.Start + r.Count

(* C16: the partial-buffer step of MultiBisect adds no range when the two  *)
(* buffers have equal length and equal elements, and otherwise exactly one *)
(* range, which covers the height ranges of both buffers.                  *)
C16_PartialBufferStep ==
    [][(last.op = "MultiBisect" /\ last.pc = "buffer" /\ last'.pc = "wait")
       => IF bld["b"].inChunkElems = bld["other"].inChunkElems
          THEN last'.diffs = last.diffs
          ELSE /\ Len(last'.diffs) = Len(last.diffs) + 1
               /\ Take(last'.diffs, Len(last.diffs)) = last.diffs
               /\ CoversBuffer(last'.diffs[Len(last'.diffs)], "b")
               /\ CoversBuffer(last'.diffs[Len(last'.diffs)], "other")]_vars

(* the first height after range r, at full width *)
EndOf(r) == WAdd(r.Start, r.Count)

(* height p lies inside some range of the list *)
InRanges(p, diffs) ==
    \E i \in 1..Len(diffs) :
       WLeq(diffs[i].Start, p) /\ WLess(p, EndOf(diffs[i]))

(* the first heights and the first heights after the ranges of a list:     *)
(* between two neighbouring ones, being inside the list does not change    *)
Endpoints(diffs) ==
    {diffs[i].Start : i \in 1..Len(diffs)} \cup
    {EndOf(diffs[i]) : i \in 1..Len(diffs)}

(* C17: the output of consolidateDiffs is sorted by strictly increasing    *)
(* start, each next start lies beyond the previous start + count, the      *)
(* output covers exactly the heights the input covers, and an empty input  *)
(* gives an empty output.                                                  *)
C17_ConsolidatePostcondition ==
    last.op = "consolidateDiffs" =>
      /\ \A i \in 1..(Len(last.res) - 1) :
            WLess(EndOf(last.res[i]), last.res[i + 1].Start)
      /\ \A p \in Endpoints(last.diffs) \cup Endpoints(last.res) :
            InRanges(p, last.diffs) <=> InRanges(p, last.res)
      /\ (last.diffs = <<>> => last.res = <<>>)

(* C18: Restore of a snapshot whose declared peakCount exceeds the ceiling *)
(* of 128 and which really holds that many presence bytes (all zero)       *)
(* returns an error, and the restoring builder has not been given that     *)
(* many peak slots.                                                        *)
C18_PeakCountCeiling ==
    (last.op = "Restore" /\ last.damage = "peakCount")
    => /\ last.err # NoErr
       /\ Len(bld["other"].outer.peaks) < OversizedPeakCount

(* C19: Restore of a strict prefix of a snapshot returns an error,         *)
(* wherever the cut falls: at the start of a field or inside it.           *)
C19_TruncatedRejected ==
    (last.op = "Restore" /\ last.damage = "trunc") => last.err # NoErr

(* C20: Restore returns an error when the version byte is not 0xA1, when   *)
(* the snapshot's blockMerge is not the builder's, and when inChunkCount   *)
(* exceeds BlockMerge; the snapshot that Snapshot produced on a builder    *)
(* with the same BlockMerge fails none of these three checks.              *)
C20_HeaderValidation ==
    last.op = "Restore" =>
      /\ last.damage \in {"version", "blockMerge", "inChunkCount"}
            => last.err # NoErr
      /\ last.damage = "none"
            => last.err \notin {"unsupported snapshot version",
                                "snapshot blockMerge != builder blockMerge",
                                "snapshot inChunkCount > blockMerge"}

---------------------------------------------------------------------------
(* the block hashes builder x accepted, in order *)
HashesOf(x) == [i \in 1..Len(hist[x].blocks) |-> hist[x].blocks[i][2]]

(* builder "b" has received exactly one Push that accepted blocks, a whole *)
(* batch of at most BlockMerge hashes, and nothing else                    *)
OnePush ==
    /\ last.op = "Push"
    /\ hist["b"].pushOnly /\ hist["b"].noErr
    /\ last.res["b"].accepted = Len(hist["b"].blocks)
    /\ Len(hist["b"].blocks) <= bld["b"].cfg.BlockMerge

(* C21: Finalize right after a single Push(h, batch) of at most BlockMerge *)
(* hashes returns ComputeChunkDigest(h, batch), in strict and in lax mode; *)
(* Finalize of a builder that received nothing returns the digest of the   *)
(* empty batch, the zero hash.                                             *)
C21_ChunkDigestConsistency ==
    [][/\ (OnePush /\ last'.op = "Finalize")
          => /\ last'.err = NoErr
             /\ last'.root = ComputeChunkDigest(hist["b"].blocks[1][1],
                                                HashesOf("b"))
       /\ (last.op = "Init" /\ last'.op = "Finalize")
          => /\ last'.err = NoErr
             /\ last'.root = ZeroHash
             /\ \A h \in Heights : last'.root = ComputeChunkDigest(h, <<>>)]_vars

(* a finalized single batch of two or more blocks, still short of a chunk  *)
C21_Witness ==
    /\ last.op = "Finalize" /\ last.err = NoErr
    /\ hist["b"].noErr
    /\ Len(hist["b"].blocks) >= 2
    /\ Len(hist["b"].blocks) < bld["b"].cfg.BlockMerge
    /\ bld["b"].outer.leafCount = 1
    /\ last.root = ComputeChunkDigest(hist["b"].blocks[1][1], HashesOf("b"))

(* both builders have been finalized after their last block *)
BothFinalized ==
    /\ ~hist["b"].pushOnly /\ ~hist["other"].pushOnly
    /\ BufferEmpty("b") /\ BufferEmpty("other")

(* C22: two builders with the same BlockMerge that accepted the same       *)
(* non-empty sequence of block hashes at consecutive heights but from      *)
(* different first heights have different roots once finalized, and        *)
(* InnerMerkleForRange of the same hashes at two different start heights   *)
(* returns two different roots, wrapped or not.                            *)
C22_MetadataBinding ==
    /\ (/\ BothFinalized
        /\ hist["b"].noErr /\ hist["other"].noErr
        /\ Len(hist["b"].blocks) >= 1
        /\ HashesOf("b") = HashesOf("other")
        /\ Consecutive("b") /\ Consecutive("other")
        /\ hist["b"].blocks[1][1] # hist["other"].blocks[1][1])
       => Root(bld["b"].outer) # Root(bld["other"].outer)
    /\ (last.op = "InnerMerkleForRange" /\ last.h1 # last.h2)
       => /\ last.r1.err = NoErr /\ last.r2.err = NoErr
          /\ last.r1.root # last.r2.root

(* two finalized builders holding the same two or more hashes from         *)
(* different first heights, with different roots                           *)
C22_Witness ==
    /\ BothFinalized
    /\ hist["b"].noErr /\ hist["other"].noErr
    /\ Len(hist["b"].blocks) >= 2
    /\ HashesOf("b") = HashesOf("other")
    /\ Consecutive("b")
    /\ hist["b"].blocks[1][1] # hist["other"].blocks[1][1]
    /\ last.op = "Finalize"
    /\ Root(bld["b"].outer) # Root(bld["other"].outer)

(* C23: on a builder that was never restored, neither Push nor Finalize    *)
(* returns the non-contiguous-combine error of AddLeaf, in strict and in   *)
(* lax mode.                                                               *)
C23_NoCombineErrorFromPush ==
    /\ last.op = "Push" => last.res["b"].err # ErrNonContiguousCombine
    /\ last.op = "Finalize" => last.err # ErrNonContiguousCombine

(* the occupied peaks of builder x from the highest level down to level 0 *)
OccupiedPeaks(x) ==
    LET peaks == bld[x].outer.peaks
        IsPeak(p) == p # Nil
    IN SelectSeq([j \in 1..Len(peaks) |-> peaks[Len(peaks) + 1 - j]], IsPeak)

(* C24: after Push and Finalize calls that all returned no error, each     *)
(* occupied peak, from the highest level down, starts where the previous   *)
(* one ends, and Finalize of a builder holding at least one block does not *)
(* return the zero hash.                                                   *)
C24_PeaksContiguous ==
    hist["b"].noErr =>
      /\ \A j \in 1..(Len(OccupiedPeaks("b")) - 1) :
            OccupiedPeaks("b")[j].start + OccupiedPeaks("b")[j].count
              = OccupiedPeaks("b")[j + 1].start
      /\ (last.op = "Finalize" /\ bld["b"].totalBlocks >= 1)
            => last.root # ZeroHash

(* C25: the partial chunk buffer never holds more than BlockMerge          *)
(* elements, whether the calls so far succeeded or failed, and after a     *)
(* Push that returned no error it holds fewer than BlockMerge.             *)
C25_BufferBounded ==
    /\ Len(bld["b"].inChunkElems) <= bld["b"].cfg.BlockMerge
    /\ (last.op = "Push" /\ last.res["b"].err = NoErr)
          => Len(bld["b"].inChunkElems) < bld["b"].cfg.BlockMerge

(* C26: at every moment of a MultiBisect(other, k) call, the goroutines    *)
(* that execute checkNode, each of which holds one slot of the semaphore,  *)
(* number at most max(k, 1).                                               *)
C26_BoundedWorkers ==
    last.op = "MultiBisect" =>
      Cardinality({g \in last.gs : g.state = "run"})
        <= (IF last.concurrency > 1 THEN last.concurrency ELSE 1)

(* both slots of a call with k = 2 are held while another goroutine waits  *)
(* for a slot                                                              *)
C26_Witness ==
    /\ last.op = "MultiBisect" /\ last.pc # "done"
    /\ last.concurrency = 2
    /\ Cardinality({g \in last.gs : g.state = "run"}) = 2
    /\ \E g \in last.gs : g.state = "waitSem"

(* C27: a MultiBisectWithContext call whose context is cancelled, at call  *)
(* time already, returns a cancelled error.                                *)
C27_CancelledContext ==
    (MBDone /\ last.ctx = <<TRUE>>) => last.err # NoErr

---------------------------------------------------------------------------
(* C28  Diff soundness.  Every range that TreeDiff returns has a count of  *)
(* at least 1 and contains a height at which the two builders hold         *)
(* different hashes or at which only one of them holds a block; builders   *)
(* with the same blocks at the same heights get no range.                  *)
C28_DiffSoundness ==
    (last.op = "TreeDiff" /\ hist["b"].noErr /\ hist["other"].noErr)
    => \A i \in 1..Len(last.diffs) :
          /\ last.diffs[i].Count >= 1
          /\ \E h \in DiffHeights(last.self, last.peer) :
                /\ last.diffs[i].Start <= h
                /\ h < last.diffs[i].Start + last.diffs[i].Count

---------------------------------------------------------------------------
(* C29  State() arithmetic.  A builder that has only had Push calls, none  *)
(* of which returned an error, and accepted n blocks in total reports      *)
(* TotalBlocks = n, Committed = n div BlockMerge and InChunkCount =        *)
(* n mod BlockMerge, and in strict mode NextHeight = StartHeight + n.      *)
C29_StateArithmetic ==
    (hist["b"].pushOnly /\ hist["b"].noErr)
    => LET n == Len(hist["b"].blocks)
           st == State(bld["b"])
       IN /\ st.TotalBlocks = n
          /\ st.Committed = n \div bld["b"].cfg.BlockMerge
          /\ st.InChunkCount = n % bld["b"].cfg.BlockMerge
          /\ bld["b"].enforceHeights
             => st.NextHeight = bld["b"].cfg.StartHeight[1] + n

(* a strict builder starting above height 0 with a chunk size above 1 has  *)
(* committed a chunk and holds a partial one after a Push without error    *)
C29_Witness ==
    /\ last.op = "Push" /\ last.res["b"].err = NoErr
    /\ hist["b"].pushOnly /\ hist["b"].noErr
    /\ bld["b"].enforceHeights /\ bld["b"].cfg.StartHeight[1] > 0
    /\ bld["b"].cfg.BlockMerge > 1
    /\ State(bld["b"]).Committed >= 1
    /\ State(bld["b"]).InChunkCount >= 1

---------------------------------------------------------------------------
(* C30  Binary-counter shape of the peaks.                                 *)

(* the number of leaves merged into node n *)
RECURSIVE LeavesOf(_)
LeavesOf(n) ==
    IF n = Nil THEN 0
    ELSE IF n.hasData THEN 1
    ELSE LeavesOf(n.left) + LeavesOf(n.right)

(* 2^l *)
RECURSIVE Pow2(_)
Pow2(l) == IF l = 0 THEN 1 ELSE 2 * Pow2(l - 1)

(* slot l (Go index) is occupied exactly when bit l of leafCount is 1, and *)
(* an occupied slot l holds the merge of exactly 2^l leaves                *)
BinaryCounterShape(a) ==
    /\ a.leafCount < Pow2(Len(a.peaks))
    /\ \A l \in 0..(Len(a.peaks) - 1) :
          /\ a.peaks[l + 1] # Nil <=> (a.leafCount \div Pow2(l)) % 2 = 1
          /\ a.peaks[l + 1] # Nil => LeavesOf(a.peaks[l + 1]) = Pow2(l)

(* the call recorded in `last` made AddLeaf return its error *)
AddLeafFailed(call) ==
    \/ call.op = "Push" /\ call.res["b"].err = ErrNonContiguousCombine
    \/ call.op = "Finalize" /\ call.err = ErrNonContiguousCombine

(* C30: the outer accumulator of a new builder has the binary-counter      *)
(* shape, and every Push or Finalize whose AddLeaf calls all return no     *)
(* error takes an accumulator of that shape to one of that shape.          *)
C30_BinaryCounterShape ==
    /\ BinaryCounterShape(bld["b"].outer)
    /\ [][(BinaryCounterShape(bld["b"].outer) /\ ~AddLeafFailed(last'))
          => BinaryCounterShape(bld'["b"].outer)]_vars

(* three leaves were added without error: the first two were merged into   *)
(* slot 1 and the third sits in slot 0                                     *)
C30_Witness ==
    /\ hist["b"].noErr
    /\ last.op \in {"Push", "Finalize"}
    /\ bld["b"].outer.leafCount = 3
    /\ Len(bld["b"].outer.peaks) = 2
    /\ LeavesOf(bld["b"].outer.peaks[1]) = 1
    /\ LeavesOf(bld["b"].outer.peaks[2]) = 2

---------------------------------------------------------------------------
(* C31  The peak that AddLeaf makes of a left peak and a carry starts at   *)
(* the left peak's start and its count is the true sum of the two counts,  *)
(* without wrap-around of the 32-bit count.                                *)
C31_MergedCountIsTrueSum ==
    last.op = "combine"
    => /\ last.carry.start = last.left.start
       /\ last.carry.count = WAdd(last.left.count, last.right.count)

---------------------------------------------------------------------------
(* C32  MultiBisect collects the results after all workers are done.       *)

(* the number of times x occurs in the list *)
CountOf(list, x) == Cardinality({i \in 1..Len(list) : list[i] = x})

(* the goroutines inside the mutex *)
InMutex == {g \in last.gs : g.state = "run" /\ Head(g.stack).pc = "append"}

(* C32: in every interleaving the wait-group counter is above zero while a *)
(* goroutine of the call exists, at most one goroutine is between Lock and *)
(* Unlock and the mutex is held exactly then, and when consolidateDiffs is *)
(* called every goroutine has finished and the list holds every range the  *)
(* traversal emits, each once.                                             *)
C32_CollectAfterWorkers ==
    last.op = "MultiBisect"
    => /\ last.gs # {} => last.wg > 0
       /\ Cardinality(InMutex) = (IF last.mu THEN 1 ELSE 0)
       /\ last.pc = "done"
          => /\ last.gs = {}
             /\ last.wg = 0
             /\ LET seq == SeqDiffs(bld[last.self], bld[last.peer])
                IN /\ Len(last.diffs) = Len(seq)
                   /\ \A i \in 1..Len(seq) :
                         CountOf(last.diffs, seq[i]) = CountOf(seq, seq[i])

(* the main thread waits while two goroutines run, one of them inside the  *)
(* mutex and the other stopped before it                                   *)
C32_Witness ==
    /\ MBRunning /\ last.pc = "wait"
    /\ last.wg >= 2
    /\ last.mu
    /\ \E g \in last.gs :
          /\ g.state = "run" /\ Head(g.stack).pc = "head"
          /\ CheckNodeHead(Head(g.stack).n1, Head(g.stack).n2).kind = "diff"

---------------------------------------------------------------------------
(* C33  Block conservation.                                                *)

(* the sum of the counts of the occupied peaks among the first i slots *)
RECURSIVE PeakBlocks(_, _)
PeakBlocks(peaks, i) ==
    IF i = 0 THEN 0
    ELSE PeakBlocks(peaks, i - 1)
         + (IF peaks[i] = Nil THEN 0 ELSE peaks[i].count)

(* C33: in every state a builder reaches by Push and Finalize calls,       *)
(* failing ones included, totalBlocks is the sum of the counts of the      *)
(* occupied peaks plus the length of the partial buffer.                   *)
C33_BlockConservation ==
    bld["b"].totalBlocks =
       PeakBlocks(bld["b"].outer.peaks, Len(bld["b"].outer.peaks))
       + Len(bld["b"].inChunkElems)

---------------------------------------------------------------------------
(* C34  MultiBisect terminates: under fair scheduling every call, whatever *)
(* the concurrency, returns; so no goroutine stays blocked on the          *)
(* semaphore, the mutex or the wait group.                                 *)
C34_MultiBisectTerminates == MBRunning ~> MBDone

(* a call with a concurrency below 1 has returned after traversing the     *)
(* peaks of two levels, one goroutine after the other                      *)
C34_Witness ==
    /\ MBDone
    /\ last.concurrency < 1
    /\ Cardinality({i \in 1..MaxLevel(bld[last.self], bld[last.peer]) :
          ChildDiffers(PeakAt(bld[last.self], i),
                       PeakAt(bld[last.peer], i))}) >= 2

---------------------------------------------------------------------------
(* C35  TreeBisect and TreeDiff agree on the first difference: for two     *)
(* builders that never returned an error, not both empty, TreeBisect       *)
(* returns (0,0) exactly when TreeDiff returns no range, and otherwise its *)
(* start is the smallest start among the ranges of TreeDiff.               *)
C35_BisectAgreesWithDiff ==
    (/\ last.op = "TreeBisect"
     /\ hist["b"].noErr /\ hist["other"].noErr
     /\ ~last.res.fault)
    => LET diffs == TreeDiff(bld[last.self], bld[last.peer])
       IN /\ (last.res.start = 0 /\ last.res.count = 0) <=> diffs = <<>>
          /\ diffs # <<>>
             => last.res.start =
                   MinOf({diffs[i].Start : i \in 1..Len(diffs)})

---------------------------------------------------------------------------
(* C36  TreeDiff emits its ranges from left to right.                      *)

(* the node invariants: count >= 1, and an internal node starts where its  *)
(* left child starts, its right child starts where the left one ends, and  *)
(* its count is the sum of the counts of its children                      *)
RECURSIVE NodeInvariants(_)
NodeInvariants(n) ==
    \/ n = Nil
    \/ /\ n.count >= 1
       /\ \/ n.hasData
          \/ /\ n.left # Nil /\ n.right # Nil
             /\ n.left.start = n.start
             /\ n.right.start = n.left.start + n.left.count
             /\ n.count = n.left.count + n.right.count
             /\ NodeInvariants(n.left)
             /\ NodeInvariants(n.right)

(* C36: for two builders whose root nodes satisfy the node invariants, the *)
(* starts of the ranges TreeDiff returns never decrease along the list.    *)
C36_DiffLeftToRight ==
    (/\ last.op = "TreeDiff"
     /\ NodeInvariants(RootNode(bld[last.self]))
     /\ NodeInvariants(RootNode(bld[last.peer])))
    => \A i \in 1..(Len(last.diffs) - 1) :
          last.diffs[i].Start <= last.diffs[i + 1].Start

(* a TreeDiff of two well-formed trees of different sizes that returned    *)
(* more than one range                                                     *)
C36_Witness ==
    /\ last.op = "TreeDiff"
    /\ RootNode(bld[last.self]) # Nil /\ RootNode(bld[last.peer]) # Nil
    /\ NodeInvariants(RootNode(bld[last.self]))
    /\ NodeInvariants(RootNode(bld[last.peer]))
    /\ RootNode(bld[last.self]).count # RootNode(bld[last.peer]).count
    /\ Len(last.diffs) >= 2
    /\ last.diffs[1].Start < last.diffs[Len(last.diffs)].Start

---------------------------------------------------------------------------
(* C37  The stack descents finish without dereferencing a nil node: every  *)
(* TreeDiff call returns its list and every TreeBisect call returns a      *)
(* range, whatever the two trees are, nil roots included.                  *)
C37_DescentsFinishWithoutFault ==
    /\ last.op = "TreeDiff" => last.diffs \in Seq([Start : Nat, Count : Nat])
    /\ last.op = "TreeBisect" => ~last.res.fault

---------------------------------------------------------------------------
(* C38  Finalize is idempotent.  A Finalize call right after one that      *)
(* returned no error returns the same root and no error and changes no     *)
(* field of the builder.  A Finalize that returns no error leaves          *)
(* TotalBlocks as it was and the buffer empty; a non-empty buffer has      *)
(* become one more leaf whose count is the length of the buffer; on an     *)
(* empty builder the root is the zero hash and nothing changes.            *)
C38_FinalizeIdempotent ==
    [][(last'.op = "Finalize")
       => /\ (last.op = "Finalize" /\ last.err = NoErr)
             => /\ last'.root = last.root
                /\ last'.err = NoErr
                /\ bld' = bld
          /\ last'.err = NoErr
             => /\ bld'["b"].totalBlocks = bld["b"].totalBlocks
                /\ Len(bld'["b"].inChunkElems) = 0
                /\ Len(bld["b"].inChunkElems) > 0
                   => /\ bld'["b"].outer.leafCount
                           = bld["b"].outer.leafCount + 1
                      /\ PeakBlocks(bld'["b"].outer.peaks,
                                    Len(bld'["b"].outer.peaks))
                           = PeakBlocks(bld["b"].outer.peaks,
                                        Len(bld["b"].outer.peaks))
                             + Len(bld["b"].inChunkElems)
          /\ bld["b"].totalBlocks = 0
             => last'.root = ZeroHash /\ last'.err = NoErr /\ bld' = bld]_vars

(* a second Finalize right after one that committed a short chunk *)
C38_Witness ==
    /\ last.op = "Finalize" /\ last.again /\ last.err = NoErr
    /\ last.root # ZeroHash
    /\ bld["b"].totalBlocks % bld["b"].cfg.BlockMerge # 0
    /\ Len(bld["b"].inChunkElems) = 0

---------------------------------------------------------------------------
(* C39  Binary snapshot byte round-trip.  When "b" was reached by Push and *)
(* Finalize calls and "other" (same BlockMerge, any StartHeight, any       *)
(* earlier ingestion) is given Restore(Snapshot(b)) and the Restore        *)
(* returns no error, Snapshot(other) is byte for byte Snapshot(b), and     *)
(* taking the snapshot left every field of "b" as it was.                  *)
C39_SnapshotByteRoundTrip ==
    [][(last'.op = "Restore" /\ last'.damage = "none" /\ last'.err = NoErr)
       => /\ Snapshot(bld'["other"]) = Snapshot(bld["b"])
          /\ bld'["b"] = bld["b"]]_vars

(* a strict builder that had ingested a block of its own has restored the  *)
(* snapshot of a finalized lax builder holding a peak                      *)
C39_Witness ==
    /\ last.op = "Restore" /\ last.damage = "none" /\ last.err = NoErr
    /\ Snapshot(bld["other"]) = Snapshot(bld["b"])
    /\ ~hist["b"].pushOnly
    /\ ~bld["b"].enforceHeights
    /\ bld["other"].cfg.StartHeight # <<>>
    /\ bld["b"].outer.leafCount >= 1
    /\ \E i \in 1..Len(bld["b"].outer.peaks) : bld["b"].outer.peaks[i] # Nil

====
